---- MODULE Spec2Model ----
(***************************************************************************)
(* SFTP-SYNC synchronization engine: the diff planner (diff_actions,       *)
(* index_entries, newer), the plan executor (SyncExecutor::execute) over   *)
(* the LocalStore / RemoteStore implementations, and the batch runner      *)
(* execute_jobs_with_progress.                                             *)
(*                                                                         *)
(* Modelling conventions                                                   *)
(*  - A SystemTime is a number of milliseconds since UNIX_EPOCH.           *)
(*  - A FileIndex (HashMap<PathBuf, FileEntry>) is the sequence of its     *)
(*    entries in the map's iteration order; keys are unique.  The order    *)
(*    of a std HashMap depends on the per-map RandomState, so              *)
(*    index_entries yields every order.                                    *)
(*  - A store is [files, dirs]: files maps a relative path to Absent or    *)
(*    to [bytes, modified]; dirs is the set of existing directories,       *)
(*    RootDir standing for the rule's root itself.                         *)
(***************************************************************************)
EXTENDS Integers, Sequences, FiniteSets, TLC

VARIABLES
    direction,   \* rule.direction
    remoteKind,  \* which RemoteStore implementation is behind `remote`
    local,       \* the local store (FsLocalStore)
    remote,      \* the remote store
    clock,       \* SystemTime::now()
    pc,          \* position of the caller / of the running function
    plan,        \* the SyncPlan last planned (NoPlan before)
    replay,      \* a second plan computed from the same two listings
    replan,      \* the plan computed after the execution finished
    cursor,      \* execute: index of the next action of the plan
    logs,        \* execute: Vec<ExecutionLog> collected so far
    trace,       \* every store / limiter operation made, in order
    jobs,        \* execute_jobs_with_progress: the jobs argument
    jobIdx,      \* execute_jobs_with_progress: index of the running job
    limited,     \* whether a BandwidthLimiter is installed
    summary,     \* ExecutionSummary
    completed,   \* execute_jobs_with_progress: the completed counter
    events,      \* progress(completed, total) callbacks made, in order
    result,      \* what the function returned: "none", "Ok", "Err"
    queue,       \* TASK_QUEUE: the submissions no worker has taken yet
    tasks,       \* the TaskMessage of every submission made
    chan,        \* per submission, the events held by its response channel
    rx,          \* per submission, its receiver: "none", "open", "dropped"
    workers,     \* per worker thread, the task it runs and how far it is
    sent,        \* per submission, the events passed to send_blocking
    knownHosts,  \* known_hosts.json
    calls,       \* per connection attempt, its position in establish_session
    verdicts,    \* every HostCheck verify_host has returned, in order
    rules,       \* plan_jobs_with_progress: target.rules
    ruleIdx,     \* plan_jobs_with_progress: index of the rule being planned
    planned,     \* plan_jobs_with_progress: jobs
    warnings,    \* plan_jobs_with_progress: warnings
    base_path,   \* resolve_remote_root: target.base_path
    rule_remote, \* resolve_remote_root: rule.remote
    resolved,    \* resolve_remote_root: the path returned
    limiter,     \* BandwidthLimiter: limit_per_sec, allowance, last_check
    instant,     \* Instant::now(), in ticks since the limiter was created
    consumes,    \* every consume call that has returned, in order
    sessions,    \* per job, the SyncSession to_session derived from it
    next_session_id, \* AppState: next_session_id
    task_progress,   \* AppState: the targets task_progress has an entry for
    transfer_logs    \* AppState: the messages log_event has pushed to logs

ruleVars == <<direction, remoteKind>>
storeVars == <<local, remote>>
planVars == <<plan, replay, replan>>
execVars == <<cursor, logs, trace>>
jobVars == <<jobs, jobIdx, limited, summary, completed, events>>

queueVars == <<queue, tasks, chan, rx, workers, sent>>
trustVars == <<knownHosts, calls, verdicts>>
targetVars == <<rules, ruleIdx, planned, warnings>>
rootVars == <<base_path, rule_remote, resolved>>
limiterVars == <<limiter, instant, consumes>>
sessionVars == <<sessions, next_session_id, task_progress, transfer_logs>>
helperVars == <<rootVars, limiterVars, sessionVars>>
serviceVars == <<queueVars, trustVars, targetVars, helperVars>>

vars == <<ruleVars, serviceVars, storeVars, clock, pc, planVars, execVars, jobVars,
          result>>

----------------------------------------------------------------------------
(* Bounds *)

\* modification times range over 0 .. MaxTicks grains
MaxTicks == 3
\* how many grains the clock may advance during one run
ExtraTicks == 1
\* how many jobs one Execute batch may hold
MaxJobs == 2
\* rules of a target
MaxRules == 3
\* characters of a remote path
MaxPathLen == 3
\* ticks the limiter's clock may reach
MaxInstant == 4
\* consume calls on one limiter
MaxConsumes == 3
\* bytes of the largest transfer
MaxBytes == 3

(* Program constants *)

\* const SKEW: Duration = Duration::from_millis(500)
SKEW == 500
\* Duration::from_secs: SFTP mtimes are whole seconds
MillisPerSec == 1000

\* the time grid: half the tolerance, so that differences below, equal to
\* and above SKEW all occur
Grain == SKEW \div 2
Times == {k * Grain : k \in 0..MaxTicks}
ClockStart == MaxTicks * Grain
ClockEnd == (MaxTicks + ExtraTicks) * Grain

Push == "Push"
Pull == "Pull"
Bidirectional == "Bidirectional"
SyncDirection == {Push, Pull, Bidirectional}

InMemoryRemote == "InMemoryRemote"
SftpRemoteStore == "SftpRemoteStore"
RemoteKinds == {InMemoryRemote, SftpRemoteStore}

RootDir == ""
PathOrder == <<"a.txt", "d/b.txt">>
Paths == {PathOrder[i] : i \in DOMAIN PathOrder}
Dirs == {RootDir, "d"}
Contents == {<<7>>, <<7, 9>>}

\* Path::parent of a relative path (unwrap_or(Path::new("")))
Parent(path) == IF path = "d/b.txt" THEN "d" ELSE RootDir
\* the directory chain create_dir_all / ensure_dir walks, root first
DirChain(dir) == IF dir = RootDir THEN <<RootDir>> ELSE <<RootDir, dir>>

\* a path with no file, and the plan slot before any plan is made
Absent == [absent |-> TRUE]
NoPlan == [planned |-> FALSE]

Range(s) == {s[i] : i \in DOMAIN s}
Perms(S) ==
    {f \in [1..Cardinality(S) -> S] : \A i, j \in DOMAIN f : i # j => f[i] # f[j]}

----------------------------------------------------------------------------
(* Diff planner *)

FileEntry(path, size, modified) ==
    [path |-> path, kind |-> "File", size |-> size, modified |-> modified]

Upload(rel_path, size) == [kind |-> "Upload", rel_path |-> rel_path, size |-> size]
Download(rel_path, size) == [kind |-> "Download", rel_path |-> rel_path, size |-> size]
DeleteRemote(rel_path) == [kind |-> "DeleteRemote", rel_path |-> rel_path]
DeleteLocal(rel_path) == [kind |-> "DeleteLocal", rel_path |-> rel_path]
Conflict(rel_path) == [kind |-> "Conflict", rel_path |-> rel_path]

\* PlanStats::default()
PlanStatsDefault ==
    [uploads |-> 0, downloads |-> 0, deletes_remote |-> 0, deletes_local |-> 0,
     conflicts |-> 0]

\* a push that is always counted as an upload
PushedAsUpload(action, counter) == <<[action |-> action, counter |-> "uploads"]>>

\* one `actions.push(..); stats.<counter> += 1;` of diff_actions
Pushed(action, counter) == <<[action |-> action, counter |-> counter]>>

newerInclusive(lhs, rhs) == IF lhs < rhs THEN FALSE ELSE (lhs - rhs) >= SKEW

\* a comparison of the distance between the two times, whichever is later
newerEitherWay(lhs, rhs) == IF lhs < rhs THEN (rhs - lhs) > SKEW ELSE (lhs - rhs) > SKEW

\* lhs.duration_since(rhs).map(|delta| delta > SKEW).unwrap_or(false)
newer(lhs, rhs) == IF lhs < rhs THEN FALSE ELSE (lhs - rhs) > SKEW

\* a lookup that finds nothing
contains_keyNever(index, path) == FALSE

\* HashMap::get / contains_key on a FileIndex
contains_key(index, path) == \E i \in DOMAIN index : index[i].path = path
get(index, path) == index[CHOOSE i \in DOMAIN index : index[i].path = path]

\* the HashMap that collect() builds: a later entry replaces an earlier one
\* with the same path
RECURSIVE collect(_)
collect(entries) ==
    IF entries = <<>> THEN [p \in {} |-> Absent]
    ELSE LET last == entries[Len(entries)]
             init == collect(SubSeq(entries, 1, Len(entries) - 1))
         IN [p \in (DOMAIN init) \cup {last.path} |->
                IF p = last.path THEN last ELSE init[p]]

\* fn index_entries: every FileIndex the collect can produce, one per
\* iteration order of the new HashMap
index_entries(entries) ==
    LET m == collect(entries)
    IN {[i \in DOMAIN ord |-> m[ord[i]]] : ord \in Perms(DOMAIN m)}

LocalOnlyPullUploads(dir, path, local_entry) ==
    Pushed(Upload(path, local_entry.size), "uploads")

\* diff_actions, first loop, remote_index.get(path) = None
LocalOnly(dir, path, local_entry) ==
    CASE dir = Push -> Pushed(Upload(path, local_entry.size), "uploads")
      [] dir = Pull -> Pushed(DeleteLocal(path), "deletes_local")
      [] dir = Bidirectional -> Pushed(Upload(path, local_entry.size), "uploads")

InBothLocalSize(dir, path, local_entry, remote_entry) ==
    LET local_newer == newer(local_entry.modified, remote_entry.modified)
        remote_newer == newer(remote_entry.modified, local_entry.modified)
    IN CASE dir = Push ->
              IF local_newer THEN Pushed(Upload(path, local_entry.size), "uploads")
              ELSE <<>>
         [] dir = Pull ->
              IF remote_newer THEN Pushed(Download(path, local_entry.size), "downloads")
              ELSE <<>>
         [] dir = Bidirectional ->
              CASE local_newer /\ ~remote_newer ->
                     Pushed(Upload(path, local_entry.size), "uploads")
                [] ~local_newer /\ remote_newer ->
                     Pushed(Download(path, local_entry.size), "downloads")
                [] local_newer /\ remote_newer ->
                     Pushed(Conflict(path), "conflicts")
                [] OTHER -> <<>>

InBothEagerConflict(dir, path, local_entry, remote_entry) ==
    LET local_newer == newer(local_entry.modified, remote_entry.modified)
        remote_newer == newer(remote_entry.modified, local_entry.modified)
    IN CASE dir = Push ->
              IF local_newer THEN Pushed(Upload(path, local_entry.size), "uploads")
              ELSE <<>>
         [] dir = Pull ->
              IF remote_newer THEN Pushed(Download(path, remote_entry.size), "downloads")
              ELSE <<>>
         [] dir = Bidirectional ->
              CASE local_newer -> Pushed(Conflict(path), "conflicts")
                [] ~local_newer /\ remote_newer ->
                     Pushed(Download(path, remote_entry.size), "downloads")
                [] OTHER -> <<>>

\* diff_actions, first loop, remote_index.get(path) = Some(remote_entry)
InBoth(dir, path, local_entry, remote_entry) ==
    LET local_newer == newer(local_entry.modified, remote_entry.modified)
        remote_newer == newer(remote_entry.modified, local_entry.modified)
    IN CASE dir = Push ->
              IF local_newer THEN Pushed(Upload(path, local_entry.size), "uploads")
              ELSE <<>>
         [] dir = Pull ->
              IF remote_newer THEN Pushed(Download(path, remote_entry.size), "downloads")
              ELSE <<>>
         [] dir = Bidirectional ->
              CASE local_newer /\ ~remote_newer ->
                     Pushed(Upload(path, local_entry.size), "uploads")
                [] ~local_newer /\ remote_newer ->
                     Pushed(Download(path, remote_entry.size), "downloads")
                [] local_newer /\ remote_newer ->
                     Pushed(Conflict(path), "conflicts")
                [] OTHER -> <<>>

RemoteOnlyPushDownloads(dir, path, remote_entry) ==
    Pushed(Download(path, remote_entry.size), "downloads")

\* diff_actions, second loop body after the contains_key check
RemoteOnly(dir, path, remote_entry) ==
    CASE dir = Push -> Pushed(DeleteRemote(path), "deletes_remote")
      [] dir = Pull -> Pushed(Download(path, remote_entry.size), "downloads")
      [] dir = Bidirectional -> Pushed(Download(path, remote_entry.size), "downloads")

\* for (path, local_entry) in local_index { match remote_index.get(path) .. }
RECURSIVE LocalPass(_, _, _, _)
LocalPass(dir, local_index, remote_index, i) ==
    IF i > Len(local_index) THEN <<>>
    ELSE LET local_entry == local_index[i]
             path == local_entry.path
             step == IF contains_key(remote_index, path)
                     THEN InBoth(dir, path, local_entry, get(remote_index, path))
                     ELSE LocalOnly(dir, path, local_entry)
         IN step \o LocalPass(dir, local_index, remote_index, i + 1)

\* for (path, remote_entry) in remote_index { if contains_key { continue } .. }
RECURSIVE RemotePass(_, _, _, _)
RemotePass(dir, local_index, remote_index, i) ==
    IF i > Len(remote_index) THEN <<>>
    ELSE LET remote_entry == remote_index[i]
             path == remote_entry.path
             step == IF contains_key(local_index, path) THEN <<>>
                     ELSE RemoteOnly(dir, path, remote_entry)
         IN step \o RemotePass(dir, local_index, remote_index, i + 1)

\* the counters after the pushes, each incremented where its push is made
RECURSIVE Tally(_, _)
Tally(pushes, stats) ==
    IF pushes = <<>> THEN stats
    ELSE Tally(Tail(pushes),
               [stats EXCEPT ![Head(pushes).counter] = stats[Head(pushes).counter] + 1])

\* the two loops the other way round
diff_actionsRemoteFirst(dir, local_index, remote_index) ==
    LET pushes == RemotePass(dir, local_index, remote_index, 1)
                    \o LocalPass(dir, local_index, remote_index, 1)
    IN [actions |-> [i \in DOMAIN pushes |-> pushes[i].action],
        stats |-> Tally(pushes, PlanStatsDefault)]

\* fn diff_actions(rule, local_index, remote_index) -> (Vec<SyncAction>, PlanStats)
diff_actions(dir, local_index, remote_index) ==
    LET pushes == LocalPass(dir, local_index, remote_index, 1)
                    \o RemotePass(dir, local_index, remote_index, 1)
    IN [actions |-> [i \in DOMAIN pushes |-> pushes[i].action],
        stats |-> Tally(pushes, PlanStatsDefault)]

----------------------------------------------------------------------------
(* Stores *)

StoredFile(bytes, modified) == [bytes |-> bytes, modified |-> modified]
NoFiles == [p \in Paths |-> Absent]

\* the files of a store in the order a listing walks them
Present(store) == SelectSeq(PathOrder, LAMBDA p : store.files[p] # Absent)

\* directories that must exist for the files of a store to exist
NeededDirs(files) ==
    UNION {Range(DirChain(Parent(p))) : p \in {q \in Paths : files[q] # Absent}}

\* stat.mtime.map(|secs| UNIX_EPOCH + Duration::from_secs(secs)): whole seconds
WholeSeconds(modified) == (modified \div MillisPerSec) * MillisPerSec

ListOk(entries) == [ok |-> TRUE, entries |-> entries]
ListErr == [ok |-> FALSE, entries |-> <<>>]

\* a listing that fails when the root is missing
FsListMissingRootFails(store) ==
    IF RootDir \notin store.dirs THEN {ListErr}
    ELSE {ListOk([i \in DOMAIN Present(store) |->
                    LET f == store.files[Present(store)[i]]
                    IN FileEntry(Present(store)[i], Len(f.bytes), f.modified)]),
          ListErr}

\* FsLocalStore::list / collect: a missing root lists as empty; read_dir or
\* metadata may fail
FsList(store) ==
    IF RootDir \notin store.dirs THEN {ListOk(<<>>)}
    ELSE {ListOk([i \in DOMAIN Present(store) |->
                    LET f == store.files[Present(store)[i]]
                    IN FileEntry(Present(store)[i], Len(f.bytes), f.modified)]),
          ListErr}

\* InMemoryRemote::list: never fails
InMemoryList(store) ==
    {ListOk([i \in DOMAIN Present(store) |->
                LET f == store.files[Present(store)[i]]
                IN FileEntry(Present(store)[i], Len(f.bytes), f.modified)])}

\* SftpRemoteStore::list / collect_entries: readdir fails on a missing root
\* and may fail otherwise; mtimes come back in whole seconds
SftpList(store) ==
    IF RootDir \notin store.dirs THEN {ListErr}
    ELSE {ListOk([i \in DOMAIN Present(store) |->
                    LET f == store.files[Present(store)[i]]
                    IN FileEntry(Present(store)[i], Len(f.bytes),
                                 WholeSeconds(f.modified))]),
          ListErr}

RemoteList(kind, store) ==
    IF kind = InMemoryRemote THEN InMemoryList(store) ELSE SftpList(store)

----------------------------------------------------------------------------
(* SyncPlanner::plan *)

\* the SyncPlan (with the two listings and indexes it was computed from)
Planned(dir, local_listing, remote_listing, local_index, remote_index) ==
    LET d == diff_actions(dir, local_index, remote_index)
    IN [planned |-> TRUE, rule |-> [direction |-> dir],
        local_listing |-> local_listing, remote_listing |-> remote_listing,
        local_index |-> local_index, remote_index |-> remote_index,
        actions |-> d.actions, stats |-> d.stats]

\* every plan SyncPlanner::plan can return for two successful listings
PlansOf(dir, local_listing, remote_listing) ==
    {Planned(dir, local_listing, remote_listing, li, ri) :
        li \in index_entries(local_listing), ri \in index_entries(remote_listing)}

----------------------------------------------------------------------------
(* Initial states *)

FileSlots(times) == {Absent} \cup {StoredFile(b, t) : b \in Contents, t \in times}

\* a filesystem tree: the parents of its files exist; an empty tree may lack
\* its root
TreeStores(times) ==
    UNION {{[files |-> f, dirs |-> d] :
                d \in {NeededDirs(f), NeededDirs(f) \cup {RootDir}}} :
           f \in [Paths -> FileSlots(times)]}

\* InMemoryRemote keeps no directories
FlatStores(times) == {[files |-> f, dirs |-> {}] : f \in [Paths -> FileSlots(times)]}

RemoteStores(kind, times) ==
    IF kind = InMemoryRemote THEN FlatStores(times) ELSE TreeStores(times)

ExecutionSummaryDefault == [applied |-> 0, skipped |-> 0, failures |-> <<>>]

\* no submission, no connection attempt and no target planning is under way
QueueIdle ==
    /\ queue = <<>> /\ tasks = <<>> /\ chan = <<>> /\ rx = <<>>
    /\ workers = <<>> /\ sent = <<>>
TrustIdle == knownHosts = <<>> /\ calls = <<>> /\ verdicts = <<>>
TargetIdle == rules = <<>> /\ ruleIdx = 1 /\ planned = <<>> /\ warnings = <<>>
RootIdle == base_path = <<>> /\ rule_remote = <<>> /\ resolved = <<>>
LimiterIdle == limiter = <<>> /\ instant = 0 /\ consumes = <<>>
SessionIdle ==
    sessions = <<>> /\ next_session_id = 1 /\ task_progress = {} /\ transfer_logs = <<>>
HelpersIdle == RootIdle /\ LimiterIdle /\ SessionIdle

\* no plan has been made and nothing has been executed
SyncIdle ==
    /\ pc = "start"
    /\ plan = NoPlan
    /\ replay = NoPlan
    /\ replan = NoPlan
    /\ cursor = 1
    /\ logs = <<>>
    /\ trace = <<>>
    /\ jobs = <<>>
    /\ jobIdx = 1
    /\ limited = FALSE
    /\ summary = ExecutionSummaryDefault
    /\ completed = 0
    /\ events = <<>>
    /\ result = "none"

Idle == QueueIdle /\ TrustIdle /\ TargetIdle /\ HelpersIdle /\ SyncIdle

----------------------------------------------------------------------------
(* Planner runs: SyncPlanner::plan on two stores, twice from the same     *)
(* listings                                                                *)

InitPlan ==
    /\ direction \in SyncDirection
    /\ remoteKind \in RemoteKinds
    /\ local \in TreeStores(Times)
    /\ remote \in RemoteStores(remoteKind, Times)
    /\ clock = ClockStart
    /\ Idle

\* SyncPlanner::plan, both listings succeed
PlannerPlan ==
    /\ pc = "start"
    /\ \E ll \in FsList(local), rl \in RemoteList(remoteKind, remote) :
          /\ ll.ok /\ rl.ok
          /\ \E p \in PlansOf(direction, ll.entries, rl.entries) : plan' = p
    /\ pc' = "planned"
    /\ result' = "Ok"
    /\ UNCHANGED <<ruleVars, serviceVars, storeVars, clock, replay, replan, execVars, jobVars>>

\* SyncPlanner::plan, a listing fails: the `?` returns the error
PlannerPlanFails ==
    /\ pc = "start"
    /\ \E ll \in FsList(local), rl \in RemoteList(remoteKind, remote) :
          ~ll.ok \/ ~rl.ok
    /\ pc' = "plan_failed"
    /\ result' = "Err"
    /\ UNCHANGED <<ruleVars, serviceVars, storeVars, clock, planVars, execVars, jobVars>>

\* index_entries and diff_actions run again on the same two listings
PlanAgain ==
    /\ pc = "planned"
    /\ \E p \in PlansOf(direction, plan.local_listing, plan.remote_listing) :
          replay' = p
    /\ pc' = "replayed"
    /\ UNCHANGED <<ruleVars, serviceVars, storeVars, clock, plan, replan, execVars, jobVars,
                   result>>

NextPlan == PlannerPlan \/ PlannerPlanFails \/ PlanAgain

SpecPlan == InitPlan /\ [][NextPlan]_vars

----------------------------------------------------------------------------
(* Store operations.  Each yields the set of its possible outcomes         *)
(* [ok, store, bytes]: an I/O call on the filesystem or over SFTP may fail *)
(* at any time, the in-memory double fails only where its code does.       *)

Done(ok, store, bytes) == [ok |-> ok, store |-> store, bytes |-> bytes]

WithFile(store, path, bytes, modified) ==
    [store EXCEPT !.files[path] = StoredFile(bytes, modified)]
WithoutFile(store, path) == [store EXCEPT !.files[path] = Absent]

\* fs::create_dir_all / SftpRemoteStore::ensure_dir: creates the missing
\* directories of the chain root first; a failure leaves those made so far
MakeDirs(store, dir) ==
    LET chain == DirChain(dir)
    IN {Done(TRUE, [store EXCEPT !.dirs = @ \cup Range(chain)], <<>>)}
         \cup {Done(FALSE,
                    [store EXCEPT !.dirs = @ \cup Range(SubSeq(chain, 1, k))], <<>>) :
                  k \in 0..(Len(chain) - 1)}

\* create parents, open (truncating), write: a failed open changes nothing,
\* a failed write leaves the truncated file
WriteThrough(store, path, bytes, now) ==
    UNION {IF ~m.ok THEN {m}
           ELSE {Done(TRUE, WithFile(m.store, path, bytes, now), <<>>),
                 Done(FALSE, m.store, <<>>),
                 Done(FALSE, WithFile(m.store, path, <<>>, now), <<>>)} :
           m \in MakeDirs(store, Parent(path))}

ReadOrFail(store, path) ==
    (IF store.files[path] # Absent
     THEN {Done(TRUE, store, store.files[path].bytes)} ELSE {})
      \cup {Done(FALSE, store, <<>>)}

\* FsLocalStore
FsRead(store, path) == ReadOrFail(store, path)
FsWrite(store, path, bytes, now) == WriteThrough(store, path, bytes, now)
FsEnsureDir(store, dir) == MakeDirs(store, dir)
\* a removal that reports an absent path as an error
FsRemoveFailsOnAbsent(store, path) ==
    IF store.files[path] = Absent THEN {Done(FALSE, store, <<>>)}
    ELSE {Done(TRUE, WithoutFile(store, path), <<>>), Done(FALSE, store, <<>>)}

\* remove_file: an absent path is Ok(())
FsRemove(store, path) ==
    IF store.files[path] = Absent THEN {Done(TRUE, store, <<>>)}
    ELSE {Done(TRUE, WithoutFile(store, path), <<>>), Done(FALSE, store, <<>>)}

InMemoryWriteEmpty(store, path, bytes, now) ==
    {Done(TRUE, WithFile(store, path, <<>>, now), <<>>)}

\* InMemoryRemote
InMemoryRead(store, path) ==
    IF store.files[path] # Absent
    THEN {Done(TRUE, store, store.files[path].bytes)}
    ELSE {Done(FALSE, store, <<>>)}
InMemoryWrite(store, path, bytes, now) ==
    {Done(TRUE, WithFile(store, path, bytes, now), <<>>)}
InMemoryRemove(store, path) == {Done(TRUE, WithoutFile(store, path), <<>>)}
InMemoryEnsureDir(store, dir) == {Done(TRUE, store, <<>>)}

\* SftpRemoteStore
SftpRead(store, path) == ReadOrFail(store, path)
SftpWrite(store, path, bytes, now) == WriteThrough(store, path, bytes, now)
SftpEnsureDir(store, dir) == MakeDirs(store, dir)
\* remove_file: unlink, which fails on an absent path
SftpRemove(store, path) ==
    IF store.files[path] = Absent THEN {Done(FALSE, store, <<>>)}
    ELSE {Done(TRUE, WithoutFile(store, path), <<>>), Done(FALSE, store, <<>>)}

\* the RemoteStore behind the executor
RemoteRead(kind, store, path) ==
    IF kind = InMemoryRemote THEN InMemoryRead(store, path) ELSE SftpRead(store, path)
RemoteWrite(kind, store, path, bytes, now) ==
    IF kind = InMemoryRemote THEN InMemoryWrite(store, path, bytes, now)
    ELSE SftpWrite(store, path, bytes, now)
RemoteRemove(kind, store, path) ==
    IF kind = InMemoryRemote THEN InMemoryRemove(store, path)
    ELSE SftpRemove(store, path)
RemoteEnsureDir(kind, store, dir) ==
    IF kind = InMemoryRemote THEN InMemoryEnsureDir(store, dir)
    ELSE SftpEnsureDir(store, dir)

----------------------------------------------------------------------------
(* SyncExecutor::execute *)

Applied == [kind |-> "Applied"]
SkippedConflict == [kind |-> "SkippedConflict"]
Failed(reason) == [kind |-> "Failed", reason |-> reason]

ExecutionLog(action, status) == [action |-> action, status |-> status]

\* one operation on a store or on the limiter
Op(store, op, path, ok) == [store |-> store, op |-> op, path |-> path, ok |-> ok]

\* SyncExecutor::throttle: consume on the limiter when one is installed
Throttle(lim, path) ==
    IF lim THEN <<Op("limiter", "consume", path, TRUE)>> ELSE <<>>

\* what executing one action leaves: its status, the two stores, the
\* operations made
Outcome(status, l, r, ops) == [status |-> status, local |-> l, remote |-> r, ops |-> ops]

\* an Upload that pays for its bytes before it has read them
ExecuteUploadThrottlesFirst(path, l, r, now, kind, lim) ==
    UNION {
      IF ~rd.ok
      THEN {Outcome(Failed("read_file"), l, r,
                    Throttle(lim, path) \o <<Op("local", "read_file", path, FALSE)>>)}
      ELSE UNION {
        IF ~e.ok
        THEN {Outcome(Failed("ensure_dir"), l, e.store,
                      Throttle(lim, path)
                        \o <<Op("local", "read_file", path, TRUE),
                              Op("remote", "ensure_dir", Parent(path), FALSE)>>)}
        ELSE {Outcome(IF w.ok THEN Applied ELSE Failed("write_file"), l, w.store,
                      Throttle(lim, path)
                        \o <<Op("local", "read_file", path, TRUE),
                              Op("remote", "ensure_dir", Parent(path), TRUE),
                              Op("remote", "write_file", path, w.ok)>>) :
                 w \in RemoteWrite(kind, e.store, path, rd.bytes, now)} :
        e \in RemoteEnsureDir(kind, r, Parent(path))} :
      rd \in FsRead(l, path)}

\* SyncAction::Upload: local read_file, remote ensure_dir(parent), throttle,
\* remote write_file; the first error ends the action
ExecuteUpload(path, l, r, now, kind, lim) ==
    UNION {
      IF ~rd.ok
      THEN {Outcome(Failed("read_file"), l, r, <<Op("local", "read_file", path, FALSE)>>)}
      ELSE UNION {
        IF ~e.ok
        THEN {Outcome(Failed("ensure_dir"), l, e.store,
                      <<Op("local", "read_file", path, TRUE),
                        Op("remote", "ensure_dir", Parent(path), FALSE)>>)}
        ELSE {Outcome(IF w.ok THEN Applied ELSE Failed("write_file"), l, w.store,
                      <<Op("local", "read_file", path, TRUE),
                        Op("remote", "ensure_dir", Parent(path), TRUE)>>
                        \o Throttle(lim, path)
                        \o <<Op("remote", "write_file", path, w.ok)>>) :
                 w \in RemoteWrite(kind, e.store, path, rd.bytes, now)} :
        e \in RemoteEnsureDir(kind, r, Parent(path))} :
      rd \in FsRead(l, path)}

\* SyncAction::Download: remote read_file, local ensure_dir(parent), throttle,
\* local write_file
ExecuteDownload(path, l, r, now, kind, lim) ==
    UNION {
      IF ~rd.ok
      THEN {Outcome(Failed("read_file"), l, r, <<Op("remote", "read_file", path, FALSE)>>)}
      ELSE UNION {
        IF ~e.ok
        THEN {Outcome(Failed("ensure_dir"), e.store, r,
                      <<Op("remote", "read_file", path, TRUE),
                        Op("local", "ensure_dir", Parent(path), FALSE)>>)}
        ELSE {Outcome(IF w.ok THEN Applied ELSE Failed("write_file"), w.store, r,
                      <<Op("remote", "read_file", path, TRUE),
                        Op("local", "ensure_dir", Parent(path), TRUE)>>
                        \o Throttle(lim, path)
                        \o <<Op("local", "write_file", path, w.ok)>>) :
                 w \in FsWrite(e.store, path, rd.bytes, now)} :
        e \in FsEnsureDir(l, Parent(path))} :
      rd \in RemoteRead(kind, r, path)}

\* SyncAction::DeleteRemote
ExecuteDeleteRemote(path, l, r, now, kind, lim) ==
    {Outcome(IF rm.ok THEN Applied ELSE Failed("remove_file"), l, rm.store,
             <<Op("remote", "remove_file", path, rm.ok)>>) :
        rm \in RemoteRemove(kind, r, path)}

\* SyncAction::DeleteLocal
ExecuteDeleteLocal(path, l, r, now, kind, lim) ==
    {Outcome(IF rm.ok THEN Applied ELSE Failed("remove_file"), rm.store, r,
             <<Op("local", "remove_file", path, rm.ok)>>) :
        rm \in FsRemove(l, path)}

ExecuteActionResolvesConflict(action, l, r, now, kind, lim) ==
    CASE action.kind = "Upload" -> ExecuteUpload(action.rel_path, l, r, now, kind, lim)
      [] action.kind = "Download" -> ExecuteDownload(action.rel_path, l, r, now, kind, lim)
      [] action.kind = "DeleteRemote" ->
            ExecuteDeleteRemote(action.rel_path, l, r, now, kind, lim)
      [] action.kind = "DeleteLocal" ->
            ExecuteDeleteLocal(action.rel_path, l, r, now, kind, lim)
      [] action.kind = "Conflict" ->
            {Outcome(SkippedConflict, l, r, Throttle(lim, action.rel_path))}

\* the match of SyncExecutor::execute on one action
ExecuteAction(action, l, r, now, kind, lim) ==
    CASE action.kind = "Upload" -> ExecuteUpload(action.rel_path, l, r, now, kind, lim)
      [] action.kind = "Download" -> ExecuteDownload(action.rel_path, l, r, now, kind, lim)
      [] action.kind = "DeleteRemote" ->
            ExecuteDeleteRemote(action.rel_path, l, r, now, kind, lim)
      [] action.kind = "DeleteLocal" ->
            ExecuteDeleteLocal(action.rel_path, l, r, now, kind, lim)
      [] action.kind = "Conflict" -> {Outcome(SkippedConflict, l, r, <<>>)}

CollectedDropsFailed(collected, action, status) ==
    IF status.kind = "Failed" THEN collected
    ELSE Append(collected, ExecutionLog(action, status))

\* .map(|action| .. ExecutionLog { action: action.clone(), status }).collect()
Collected(collected, action, status) == Append(collected, ExecutionLog(action, status))

\* the operations of action `act` of job `job`, as they enter the trace
Traced(ops, job, act) ==
    [i \in DOMAIN ops |->
        [job |-> job, act |-> act, store |-> ops[i].store, op |-> ops[i].op,
         path |-> ops[i].path, ok |-> ops[i].ok]]

\* one turn of the iterator of execute over p.actions
ExecuteStep(p, job) ==
    /\ cursor <= Len(p.actions)
    /\ \E o \in ExecuteAction(p.actions[cursor], local, remote, clock, remoteKind, limited) :
          /\ local' = o.local
          /\ remote' = o.remote
          /\ logs' = Collected(logs, p.actions[cursor], o.status)
          /\ trace' = trace \o Traced(o.ops, job, cursor)
    /\ cursor' = cursor + 1

----------------------------------------------------------------------------
(* One rule, planned, executed and planned again: SyncPlanner::plan,       *)
(* SyncExecutor::execute, SyncPlanner::plan                                *)

\* files are old (time 0) or as recent as the clock's start
RunTimes == {0, ClockStart}

Init ==
    /\ direction \in SyncDirection
    /\ remoteKind \in RemoteKinds
    /\ local \in TreeStores(RunTimes)
    /\ remote \in RemoteStores(remoteKind, RunTimes)
    /\ clock = ClockStart
    /\ Idle

\* time passes
Tick ==
    /\ clock < ClockEnd
    /\ clock' = clock + Grain
    /\ UNCHANGED <<ruleVars, serviceVars, storeVars, pc, planVars, execVars, jobVars, result>>

\* SyncExecutor::execute, one action
Execute ==
    /\ pc \in {"planned", "executing"}
    /\ ExecuteStep(plan, 1)
    /\ pc' = "executing"
    /\ UNCHANGED <<ruleVars, serviceVars, clock, planVars, jobVars, result>>

\* SyncExecutor::execute returns the collected logs
ExecuteReturns ==
    /\ pc \in {"planned", "executing"}
    /\ cursor > Len(plan.actions)
    /\ pc' = "executed"
    /\ UNCHANGED <<ruleVars, serviceVars, storeVars, clock, planVars, execVars, jobVars, result>>

\* SyncPlanner::plan for the same rule against the stores as they are now
PlanAfterwards ==
    /\ pc = "executed"
    /\ \E ll \in FsList(local), rl \in RemoteList(remoteKind, remote) :
          /\ ll.ok /\ rl.ok
          /\ \E p \in PlansOf(direction, ll.entries, rl.entries) : replan' = p
    /\ pc' = "replanned"
    /\ UNCHANGED <<ruleVars, serviceVars, storeVars, clock, plan, replay, execVars, jobVars, result>>

Next == PlannerPlan \/ PlannerPlanFails \/ Tick \/ Execute \/ ExecuteReturns
           \/ PlanAfterwards

Spec == Init /\ [][Next]_vars

----------------------------------------------------------------------------
(* execute_jobs_with_progress: the jobs of one target, planned against the *)
(* stores as they are at the start, executed over SFTP                     *)

SyncJob(p) == [plan |-> p]

\* jobs.iter().map(|job| job.plan.actions.len()).sum()
RECURSIVE total_actions(_)
total_actions(js) ==
    IF js = <<>> THEN 0 ELSE Len(Head(js).plan.actions) + total_actions(Tail(js))

\* usize::max
Max(a, b) == IF a >= b THEN a ELSE b

\* progress(completed, total)
Progress(done, total) == [completed |-> done, total |-> total]

CountedDropsFailures(sum, log) ==
    CASE log.status.kind = "Applied" -> [sum EXCEPT !.applied = @ + 1]
      [] log.status.kind = "SkippedConflict" -> [sum EXCEPT !.skipped = @ + 1]
      [] log.status.kind = "Failed" -> sum

\* match log.status { Applied => .., SkippedConflict => .., Failed(reason) => .. }
Counted(sum, log) ==
    CASE log.status.kind = "Applied" -> [sum EXCEPT !.applied = @ + 1]
      [] log.status.kind = "SkippedConflict" -> [sum EXCEPT !.skipped = @ + 1]
      [] log.status.kind = "Failed" ->
            [sum EXCEPT !.failures = Append(@, <<log.action, log.status.reason>>)]

\* for log in executor.execute(&job.plan) { match ..; completed += 1; progress(..) }
RECURSIVE Tallied(_, _, _)
Tallied(ls, st, total) ==
    IF ls = <<>> THEN st
    ELSE Tallied(Tail(ls),
                 [summary |-> Counted(st.summary, Head(ls)),
                  completed |-> st.completed + 1,
                  events |-> Append(st.events,
                                    Progress(st.completed + 1, Max(total, 1)))],
                 total)

\* the stores a batch starts from: the local tree holds a recent a.txt, the
\* remote tree holds at most one old file
JobFiles(present, bytes, modified) ==
    [p \in Paths |-> IF p \in present THEN StoredFile(bytes, modified) ELSE Absent]
JobStore(files) == [files |-> files, dirs |-> NeededDirs(files) \cup {RootDir}]
JobLocalStores == {JobStore(JobFiles({"a.txt"}, <<7>>, ClockStart))}
JobRemoteStores ==
    {JobStore(JobFiles(S, <<7, 9>>, 0)) : S \in {{}, {"a.txt"}, {"d/b.txt"}}}

\* SyncPlan's fields are public: a plan with a Conflict put in front of the
\* planner's actions
WithConflict(p, path) ==
    [p EXCEPT !.actions = <<Conflict(path)>> \o @, !.stats.conflicts = @ + 1]

\* the plans a job can carry for the two listings
JobPlans(ll, rl) ==
    UNION {PlansOf(d, ll, rl) : d \in SyncDirection}
        \cup {WithConflict(p, "a.txt") : p \in PlansOf(Bidirectional, ll, rl)}

\* the job lists a caller can hold for the two stores: one job per rule
RECURSIVE JobLists(_, _, _)
JobLists(n, ll, rl) ==
    IF n = 0 THEN {<<>>}
    ELSE LET shorter == JobLists(n - 1, ll, rl)
         IN shorter \cup
              {Append(js, SyncJob(p)) :
                  js \in {x \in shorter : Len(x) = n - 1}, p \in JobPlans(ll, rl)}

InitJobs ==
    /\ QueueIdle /\ TrustIdle /\ TargetIdle /\ HelpersIdle
    /\ direction = Push
    /\ remoteKind = SftpRemoteStore
    /\ local \in JobLocalStores
    /\ remote \in JobRemoteStores
    /\ clock = ClockStart
    /\ pc = "start"
    /\ plan = NoPlan /\ replay = NoPlan /\ replan = NoPlan
    /\ cursor = 1 /\ logs = <<>> /\ trace = <<>>
    /\ \E ll \in FsList(local), rl \in SftpList(remote) :
          /\ ll.ok /\ rl.ok
          /\ jobs \in JobLists(MaxJobs, ll.entries, rl.entries)
    /\ jobIdx = 1
    /\ limited \in BOOLEAN
    /\ summary = ExecutionSummaryDefault
    /\ completed = 0
    /\ events = <<>>
    /\ result = "none"

\* if jobs.is_empty() { progress(1, 1); return Ok(ExecutionSummary::default()) }
JobsEmpty ==
    /\ pc = "start"
    /\ jobs = <<>>
    /\ events' = Append(events, Progress(1, 1))
    /\ result' = "Ok"
    /\ pc' = "done"
    /\ UNCHANGED <<ruleVars, serviceVars, storeVars, clock, planVars, execVars, jobs, jobIdx,
                   limited, summary, completed>>

ConnectFailsAfterFirstAction ==
    /\ pc = "running"
    /\ jobIdx = 1
    /\ cursor = 2
    /\ result' = "Err"
    /\ pc' = "connect_failed"
    /\ UNCHANGED <<ruleVars, serviceVars, storeVars, clock, planVars, execVars, jobVars>>

\* SftpRemoteStore::connect(target)? fails: the error is returned
ConnectFails ==
    /\ pc = "start"
    /\ jobs # <<>>
    /\ result' = "Err"
    /\ pc' = "connect_failed"
    /\ UNCHANGED <<ruleVars, serviceVars, storeVars, clock, planVars, execVars, jobVars>>

\* connected: the executor is built, progress(0, total_actions.max(1))
Connected ==
    /\ pc = "start"
    /\ jobs # <<>>
    /\ completed' = 0
    /\ summary' = ExecutionSummaryDefault
    /\ events' = Append(events, Progress(0, Max(total_actions(jobs), 1)))
    /\ pc' = "running"
    /\ UNCHANGED <<ruleVars, serviceVars, storeVars, clock, planVars, execVars, jobs, jobIdx,
                   limited, result>>

\* executor.execute(&job.plan), one action
JobExecute ==
    /\ pc = "running"
    /\ jobIdx <= Len(jobs)
    /\ ExecuteStep(jobs[jobIdx].plan, jobIdx)
    /\ UNCHANGED <<ruleVars, serviceVars, clock, pc, planVars, jobVars, result>>

\* execute has returned the job's logs: the loop over them, then the next job
JobTallied ==
    /\ pc = "running"
    /\ jobIdx <= Len(jobs)
    /\ cursor > Len(jobs[jobIdx].plan.actions)
    /\ LET st == Tallied(logs,
                         [summary |-> summary, completed |-> completed,
                          events |-> events],
                         total_actions(jobs))
       IN /\ summary' = st.summary
          /\ completed' = st.completed
          /\ events' = st.events
    /\ jobIdx' = jobIdx + 1
    /\ cursor' = 1
    /\ logs' = <<>>
    /\ UNCHANGED <<ruleVars, serviceVars, storeVars, clock, pc, planVars, trace, jobs, limited,
                   result>>

\* Ok(summary)
JobsReturn ==
    /\ pc = "running"
    /\ jobIdx > Len(jobs)
    /\ result' = "Ok"
    /\ pc' = "done"
    /\ UNCHANGED <<ruleVars, serviceVars, storeVars, clock, planVars, execVars, jobVars>>

\* TaskEvent::Finished(result)
Finished(res) == [finished |-> res]

\* spawn_worker: send_blocking(TaskEvent::Finished(result)) once the task's
\* function (execute_jobs_with_progress, plan_jobs_with_progress) has returned
WorkerFinished ==
    /\ pc \in {"done", "connect_failed"}
    /\ Finished(result) \notin Range(events)
    /\ events' = Append(events, Finished(result))
    /\ UNCHANGED <<ruleVars, serviceVars, storeVars, clock, pc, planVars, execVars, jobs, jobIdx,
                   limited, summary, completed, result>>

NextJobs == JobsEmpty \/ ConnectFails \/ Connected \/ JobExecute \/ JobTallied
               \/ JobsReturn \/ WorkerFinished

SpecJobs == InitJobs /\ [][NextJobs]_vars

----------------------------------------------------------------------------
(* The task queue: submit_plan / submit_execute and the worker threads of  *)
(* spawn_worker.  A task is kept by what its events depend on: the number  *)
(* of rules of a Plan's target, the number of actions of each job of an    *)
(* Execute.  A response channel is an async_channel::bounded: send_blocking *)
(* returns an error at once when the receiver is gone, waits while the     *)
(* channel is full, and enqueues otherwise.                                *)

\* bounded(16)
ResponseCapacity == 16
\* available_parallelism().map(|n| n.get().clamp(2, 4)).unwrap_or(2)
WorkerCount == 2
Workers == 1..WorkerCount
\* the submissions the callers make: one for each worker, or both queued
\* for the same one
Submissions == {1, 2}
\* the rules, or the actions, of the longest task
MaxSteps == 14

NoTask == [kind |-> "none"]
PlanTask(n) == [kind |-> "Plan", rules |-> n]
ExecuteTask(counts) == [kind |-> "Execute", jobs |-> counts]
PlanTasks == {PlanTask(n) : n \in {0, 1, MaxSteps}}
ExecuteTasks == {ExecuteTask(c) : c \in {<<>>, <<0>>, <<1, MaxSteps - 1>>}}

\* .sum::<usize>() over the jobs' action counts
RECURSIVE Sum(_)
Sum(counts) == IF counts = <<>> THEN 0 ELSE Head(counts) + Sum(Tail(counts))

\* usize::min
Min(a, b) == IF a <= b THEN a ELSE b

\* the worker's progress closure:
\* |completed, total| { let total = total.max(1);
\*                      Progress { completed: completed.min(total), total } }
Closure(done, total) == Progress(Min(done, Max(total, 1)), Max(total, 1))

\* the available_parallelism() values tried; 0 stands for its Err
MaxParallelism == 6

\* available_parallelism().map(|n| n.get().clamp(2, 4)).unwrap_or(2)
worker_count(parallelism) ==
    IF parallelism = 0 THEN 2 ELSE Max(2, Min(parallelism, 4))

\* a worker thread: the submission it runs (0: waiting in receiver.recv()),
\* the sends it has made for it, whether a rule has been planned, and the
\* submissions it has run to their end
IdleWorker == [task |-> 0, step |-> 0, planned |-> FALSE, ran |-> {}]
Freed(w) == [IdleWorker EXCEPT !.ran = w.ran \cup {w.task}]
Send(event, next) == [event |-> event, next |-> next]

PlanFirstUnclamped(n) == Progress(0, n)
\* let rules_total = target.rules.len().max(1); Progress { 0, rules_total }
PlanFirst(n) == Progress(0, Max(n, 1))

\* TaskMessage::Plan with n rules: what the worker in state w passes to its
\* next send_blocking and the state it is in afterwards
PlanSends(n, w) ==
    CASE w.step = 0 -> {Send(PlanFirst(n), [w EXCEPT !.step = 1])}
      [] w.step = 1 ->
            \* SftpRemoteStore::connect(target)? fails, or progress(0, total_rules)
            {Send(Finished("Err"), Freed(w)),
             Send(Closure(0, Max(n, 1)), [w EXCEPT !.step = 2])}
      [] w.step >= 2 /\ w.step <= n + 1 ->
            \* plan_single_job is Ok or Err, then progress(index + 1, total_rules)
            {Send(Closure(w.step - 1, Max(n, 1)),
                  [w EXCEPT !.step = @ + 1, !.planned = @ \/ ok]) : ok \in BOOLEAN}
      [] w.step > n + 1 ->
            \* jobs.is_empty() is an error
            {Send(Finished(IF w.planned THEN "Ok" ELSE "Err"), Freed(w))}

ExecuteSendsFinishedEarly(counts, w) ==
    LET total == Sum(counts)
    IN CASE w.step = 0 -> {Send(Finished("Ok"), [w EXCEPT !.step = 1])}
         [] w.step = 1 /\ counts = <<>> ->
               {Send(Closure(1, 1), [w EXCEPT !.step = 2])}
         [] w.step = 1 /\ counts # <<>> ->
               {Send(Finished("Err"), Freed(w)),
                Send(Closure(0, Max(total, 1)), [w EXCEPT !.step = 2])}
         [] w.step >= 2 /\ counts # <<>> /\ w.step <= total + 1 ->
               {Send(Closure(w.step - 1, Max(total, 1)), [w EXCEPT !.step = @ + 1])}
         [] OTHER -> {Send(Finished("Ok"), Freed(w))}

\* TaskMessage::Execute with jobs of the given action counts
ExecuteSends(counts, w) ==
    LET total == Sum(counts)
    IN CASE w.step = 0 -> {Send(Progress(0, Max(total, 1)), [w EXCEPT !.step = 1])}
         [] w.step = 1 /\ counts = <<>> ->
               \* jobs.is_empty(): progress(1, 1)
               {Send(Closure(1, 1), [w EXCEPT !.step = 2])}
         [] w.step = 1 /\ counts # <<>> ->
               \* connect fails, or progress(0, total_actions.max(1))
               {Send(Finished("Err"), Freed(w)),
                Send(Closure(0, Max(total, 1)), [w EXCEPT !.step = 2])}
         [] w.step >= 2 /\ counts # <<>> /\ w.step <= total + 1 ->
               \* completed += 1; progress(completed, total_actions.max(1))
               {Send(Closure(w.step - 1, Max(total, 1)), [w EXCEPT !.step = @ + 1])}
         [] OTHER -> {Send(Finished("Ok"), Freed(w))}

\* send_blocking on the response channel of submission s can return
CanSend(s) == rx[s] = "dropped" \/ Len(chan[s]) < ResponseCapacity

EnqueuedIgnoringClose(s, event) == Append(chan[s], event)
\* the channel after send_blocking(event): a closed channel takes nothing
Enqueued(s, event) == IF rx[s] = "dropped" THEN chan[s] ELSE Append(chan[s], event)

\* the stores and the clock play no part
StoresIdle ==
    /\ direction = Push
    /\ remoteKind = SftpRemoteStore
    /\ local = JobStore(NoFiles)
    /\ remote = JobStore(NoFiles)
    /\ clock = ClockStart

syncVars == <<ruleVars, storeVars, clock, pc, planVars, execVars, jobVars, result,
              helperVars>>

InitQueue ==
    /\ StoresIdle /\ SyncIdle /\ TrustIdle /\ TargetIdle /\ HelpersIdle
    /\ queue = <<>>
    /\ tasks = [s \in Submissions |-> NoTask]
    /\ chan = [s \in Submissions |-> <<>>]
    /\ rx = [s \in Submissions |-> "none"]
    /\ workers = [w \in Workers |-> IdleWorker]
    /\ sent = [s \in Submissions |-> <<>>]

\* let (tx, rx) = bounded(16); TASK_QUEUE.submit(..); rx
Submit(task) ==
    \E s \in Submissions :
        /\ rx[s] = "none"
        /\ \A r \in Submissions : r < s => rx[r] # "none"
        /\ tasks' = [tasks EXCEPT ![s] = task]
        /\ rx' = [rx EXCEPT ![s] = "open"]
        /\ queue' = Append(queue, s)
        /\ UNCHANGED <<chan, workers, sent, syncVars, trustVars, targetVars>>

\* submit_plan(target)
SubmitPlan ==
    \E t \in PlanTasks :
        /\ t.kind = "Plan"
        /\ Submit(t)

\* submit_execute(target, jobs, settings)
SubmitExecute ==
    \E t \in ExecuteTasks :
        /\ t.kind = "Execute"
        /\ Submit(t)

\* a recv() that hands the message over without removing it from the channel
TakeLeavesQueued(w) ==
    /\ workers[w].task = 0
    /\ queue # <<>>
    /\ workers' = [workers EXCEPT ![w].task = Head(queue)]
    /\ UNCHANGED <<queue, tasks, chan, rx, sent, syncVars, trustVars, targetVars>>

\* a worker that leaves its loop after the first task it has run
TakeOnce(w) ==
    /\ workers[w].task = 0
    /\ workers[w].ran = {}
    /\ queue # <<>>
    /\ workers' = [workers EXCEPT ![w].task = Head(queue)]
    /\ queue' = Tail(queue)
    /\ UNCHANGED <<tasks, chan, rx, sent, syncVars, trustVars, targetVars>>

\* while let Ok(task) = receiver.recv()
Take(w) ==
    /\ workers[w].task = 0
    /\ queue # <<>>
    /\ workers' = [workers EXCEPT ![w].task = Head(queue)]
    /\ queue' = Tail(queue)
    /\ UNCHANGED <<tasks, chan, rx, sent, syncVars, trustVars, targetVars>>

\* let _ = respond_to.send_blocking(event): one of the sends the task can
\* make next
WorkerSends(w, sends) ==
    LET s == workers[w].task
    IN /\ CanSend(s)
       /\ \E o \in sends :
             /\ chan' = [chan EXCEPT ![s] = Enqueued(s, o.event)]
             /\ sent' = [sent EXCEPT ![s] = Append(@, o.event)]
             /\ workers' = [workers EXCEPT ![w] = o.next]
       /\ UNCHANGED <<queue, tasks, rx, syncVars, trustVars, targetVars>>

\* TaskMessage::Plan { target, respond_to }
WorkerPlan(w) ==
    /\ workers[w].task # 0
    /\ tasks[workers[w].task].kind = "Plan"
    /\ WorkerSends(w, PlanSends(tasks[workers[w].task].rules, workers[w]))

\* TaskMessage::Execute { target, jobs, settings, respond_to }
WorkerExecute(w) ==
    /\ workers[w].task # 0
    /\ tasks[workers[w].task].kind = "Execute"
    /\ WorkerSends(w, ExecuteSends(tasks[workers[w].task].jobs, workers[w]))

\* the caller takes the next event from its receiver
Receive(s) ==
    /\ rx[s] = "open"
    /\ chan[s] # <<>>
    /\ chan' = [chan EXCEPT ![s] = Tail(@)]
    /\ UNCHANGED <<queue, tasks, rx, workers, sent, syncVars, trustVars, targetVars>>

\* the terminal event of submission s has been passed to send_blocking
Terminated(s) == sent[s] # <<>> /\ sent[s][Len(sent[s])] \in {Finished("Ok"), Finished("Err")}

\* the caller drops its receiver before the terminal event: the channel is
\* closed (a receiver dropped later concerns no worker)
DropReceiver(s) ==
    /\ rx[s] = "open"
    /\ ~Terminated(s)
    /\ rx' = [rx EXCEPT ![s] = "dropped"]
    /\ chan' = [chan EXCEPT ![s] = <<>>]
    /\ UNCHANGED <<queue, tasks, workers, sent, syncVars, trustVars, targetVars>>

NextQueue ==
    \/ SubmitPlan
    \/ SubmitExecute
    \/ \E w \in Workers : Take(w)
    \/ \E w \in Workers : WorkerPlan(w)
    \/ \E w \in Workers : WorkerExecute(w)
    \/ \E s \in Submissions : Receive(s)
    \/ \E s \in Submissions : DropReceiver(s)

SpecQueue == InitQueue /\ [][NextQueue]_vars

\* Callers that keep receiving: one submission more than there are workers,
\* so that the last one is made while every worker may be busy; the first is
\* long enough to fill its response channel, and no receiver is dropped
LiveSubmissions == 1..(WorkerCount + 1)
LiveTasks(s) ==
    IF s = 1 THEN {ExecuteTask(<<1, MaxSteps - 1>>)} ELSE {PlanTask(0)}

InitQueueLive ==
    /\ StoresIdle /\ SyncIdle /\ TrustIdle /\ TargetIdle /\ HelpersIdle
    /\ queue = <<>>
    /\ tasks = [s \in LiveSubmissions |-> NoTask]
    /\ chan = [s \in LiveSubmissions |-> <<>>]
    /\ rx = [s \in LiveSubmissions |-> "none"]
    /\ workers = [w \in Workers |-> IdleWorker]
    /\ sent = [s \in LiveSubmissions |-> <<>>]

\* submit_plan(target) / submit_execute(target, jobs, settings)
SubmitNext(s) ==
    /\ rx[s] = "none"
    /\ \A r \in LiveSubmissions : r < s => rx[r] # "none"
    /\ \E task \in LiveTasks(s) : tasks' = [tasks EXCEPT ![s] = task]
    /\ rx' = [rx EXCEPT ![s] = "open"]
    /\ queue' = Append(queue, s)
    /\ UNCHANGED <<chan, workers, sent, syncVars, trustVars, targetVars>>

NextQueueLive ==
    \/ \E s \in LiveSubmissions : SubmitNext(s)
    \/ \E w \in Workers : Take(w)
    \/ \E w \in Workers : WorkerPlan(w)
    \/ \E w \in Workers : WorkerExecute(w)
    \/ \E s \in LiveSubmissions : Receive(s)

\* every worker is a thread of its own that the scheduler keeps running (its
\* recv() returns when a message is there, its send_blocking returns when
\* the channel has room), and every caller keeps taking events
SpecQueueLive ==
    /\ InitQueueLive
    /\ [][NextQueueLive]_vars
    /\ \A w \in Workers :
           WF_vars(Take(w)) /\ WF_vars(WorkerPlan(w)) /\ WF_vars(WorkerExecute(w))
    /\ \A s \in LiveSubmissions : WF_vars(Receive(s))

----------------------------------------------------------------------------
(* The host trust store: verify_host over known_hosts.json, called from    *)
(* establish_session by every connection attempt.  Attempts of different   *)
(* workers interleave at their file operations: verify_host takes no lock. *)

\* how many connection attempts are made
MaxCalls == 2
Calls == 1..MaxCalls

Hosts == {"alpha", "beta"}
Fingerprints == {"f", "g"}

\* hosts.entries.get(host) is None
NoEntry == "none"
\* KnownHosts::default()
KnownHostsDefault == [h \in Hosts |-> NoEntry]

\* known_hosts.json: a file holding entries, a file that does not parse, or
\* no place for a file at all (storage_path() is None)
Stored(entries) == [entries |-> entries]
Unparsable == [unparsable |-> TRUE]
NoStoragePath == [no_path |-> TRUE]
KnownHostsFiles ==
    {Stored(e) : e \in [Hosts -> Fingerprints \cup {NoEntry}]}
        \cup {Unparsable, NoStoragePath}

\* the entry a file holds for a host
Entry(file, host) == IF "entries" \in DOMAIN file THEN file.entries[host] ELSE NoEntry

\* load_hosts: the file's entries, or KnownHosts::default() when there is no
\* path, the read fails or the bytes do not parse
load_hosts(file) ==
    (IF "entries" \in DOMAIN file THEN {file.entries} ELSE {})
        \cup {KnownHostsDefault}

\* persist: Ok(()) with the file rewritten (or untouched without a path), or
\* an error that leaves the old file or a partly written one
persist(file, hosts) ==
    IF file = NoStoragePath THEN {[ok |-> TRUE, file |-> file]}
    ELSE {[ok |-> TRUE, file |-> Stored(hosts)],
          [ok |-> FALSE, file |-> file],
          [ok |-> FALSE, file |-> Unparsable]}

\* HostCheck and the Err of verify_host
HostMatch == [check |-> "Match"]
HostNew == [check |-> "New"]
HostMismatch(expected, got) == [check |-> "Mismatch", expected |-> expected, got |-> got]
VerifyErr == [check |-> "Err"]

\* one connection attempt: establish_session(target) for a host presenting
\* a host key with the given fingerprint
Call(host, presented) ==
    [host |-> host, presented |-> presented, pc |-> "dial",
     loaded |-> KnownHostsDefault, before |-> NoStoragePath, raced |-> FALSE,
     auth |-> FALSE, result |-> "none"]

\* the attempt is between load_hosts and the return of verify_host
InVerify(c) == calls[c].pc \in {"match", "persist"}

\* verify_host has returned `check` to attempt c
Returned(c, check, file) ==
    Append(verdicts,
           [call |-> c, host |-> calls[c].host, presented |-> calls[c].presented,
            verdict |-> check, before |-> calls[c].before, after |-> file,
            raced |-> calls[c].raced])

InitTrust ==
    /\ StoresIdle /\ SyncIdle /\ QueueIdle /\ TargetIdle /\ HelpersIdle
    /\ knownHosts \in KnownHostsFiles
    \* hosts and fingerprints are interchangeable: the first attempt is
    \* alpha's, presenting f
    /\ calls \in {cs \in [Calls -> {Call(h, f) : h \in Hosts, f \in Fingerprints}] :
                     cs[1] = Call("alpha", "f")}
    /\ verdicts = <<>>

\* resolve, connect, handshake: the host key is known afterwards
Handshake(c) ==
    /\ calls[c].pc = "dial"
    /\ \/ calls' = [calls EXCEPT ![c].pc = "load"]
       \/ calls' = [calls EXCEPT ![c].pc = "done", ![c].result = "Err"]
    /\ UNCHANGED <<knownHosts, verdicts, syncVars, queueVars, targetVars>>

\* session.host_key() is None
NoHostKey == "no host key"

\* establish_session: the handshake succeeds and session.host_key() returns
\* None: the `if let Some(..)` block with verify_host is not entered
HandshakeNoHostKey(c) ==
    /\ calls[c].pc = "dial"
    /\ calls' = [calls EXCEPT ![c].pc = "auth", ![c].presented = NoHostKey]
    /\ UNCHANGED <<knownHosts, verdicts, syncVars, queueVars, targetVars>>

\* verify_host: let mut hosts = load_hosts()
LoadHosts(c) ==
    /\ calls[c].pc = "load"
    /\ \E hosts \in load_hosts(knownHosts) :
          calls' = [d \in Calls |->
                      IF d = c
                      THEN [calls[c] EXCEPT !.pc = "match", !.loaded = hosts,
                                            !.before = knownHosts,
                                            !.raced = \E o \in Calls : InVerify(o)]
                      ELSE IF InVerify(d) THEN [calls[d] EXCEPT !.raced = TRUE]
                      ELSE calls[d]]
    /\ UNCHANGED <<knownHosts, verdicts, syncVars, queueVars, targetVars>>

\* verify_host: match hosts.entries.get(host), and what establish_session
\* does with Match and Mismatch
MatchEntry(c) ==
    /\ calls[c].pc = "match"
    /\ LET stored == calls[c].loaded[calls[c].host]
       IN CASE stored = calls[c].presented ->
                 /\ verdicts' = Returned(c, HostMatch, knownHosts)
                 /\ calls' = [calls EXCEPT ![c].pc = "auth"]
            [] stored # calls[c].presented /\ stored # NoEntry ->
                 /\ verdicts' = Returned(c, HostMismatch(stored, calls[c].presented),
                                         knownHosts)
                 /\ calls' = [calls EXCEPT ![c].pc = "done", ![c].result = "Err"]
            [] stored = NoEntry ->
                 /\ verdicts' = verdicts
                 /\ calls' = [calls EXCEPT ![c].pc = "persist",
                                           ![c].loaded[calls[c].host] = calls[c].presented]
    /\ UNCHANGED <<knownHosts, syncVars, queueVars, targetVars>>

\* verify_host: persist(&hosts)?; Ok(HostCheck::New)
Persist(c) ==
    /\ calls[c].pc = "persist"
    /\ \E w \in persist(knownHosts, calls[c].loaded) :
          /\ knownHosts' = w.file
          /\ IF w.ok
             THEN /\ verdicts' = Returned(c, HostNew, w.file)
                  /\ calls' = [calls EXCEPT ![c].pc = "auth"]
             ELSE /\ verdicts' = Returned(c, VerifyErr, w.file)
                  /\ calls' = [calls EXCEPT ![c].pc = "done", ![c].result = "Err"]
    /\ UNCHANGED <<syncVars, queueVars, targetVars>>

\* establish_session: userauth_password / userauth_pubkey_file, authenticated()
Authenticate(c) ==
    /\ calls[c].pc = "auth"
    /\ \E res \in {"Ok", "Err"} :
          calls' = [calls EXCEPT ![c].pc = "done", ![c].auth = TRUE, ![c].result = res]
    /\ UNCHANGED <<knownHosts, verdicts, syncVars, queueVars, targetVars>>

NextTrust ==
    \/ \E c \in Calls : Handshake(c)
    \/ \E c \in Calls : HandshakeNoHostKey(c)
    \/ \E c \in Calls : LoadHosts(c)
    \/ \E c \in Calls : MatchEntry(c)
    \/ \E c \in Calls : Persist(c)
    \/ \E c \in Calls : Authenticate(c)

SpecTrust == InitTrust /\ [][NextTrust]_vars

----------------------------------------------------------------------------
(* plan_jobs_with_progress: one PlannedJob per rule of a target            *)

Rules == 1..MaxRules
LocalRoots == {"docs", "pics"}

\* SyncRule; both roots hold the tree of `local`
SyncRule(root, dir) == [local |-> root, direction |-> dir]

\* target.rules
RECURSIVE TargetRules(_)
TargetRules(n) ==
    IF n = 0 THEN {<<>>}
    ELSE LET shorter == TargetRules(n - 1)
         IN shorter \cup
              {Append(rs, SyncRule(root, d)) :
                  rs \in {x \in shorter : Len(x) = n - 1},
                  root \in LocalRoots, d \in SyncDirection}

\* the PlannedJob of the rule at `index` of target.rules
PlannedJob(index, rule, p) ==
    [index |-> index, rule |-> rule,
     local_index |-> p.local_index, remote_index |-> p.remote_index,
     actions |-> p.actions, stats |-> p.stats]

\* format!("Failed to plan rule {} for {}: {err}", rule.local.display(), ..)
Warning(index, rule) == [index |-> index, rule |-> rule.local]

\* plan_single_job: local.list(..)?, remote.list(..)?, diff_actions: Err when
\* a listing fails (the remote is not listed after a failed local listing),
\* else the job of a plan; with the store operations made
plan_single_job(index, rule, l, r) ==
    UNION {IF ~ll.ok
           THEN {[ok |-> FALSE, ops |-> <<Op("local", "list", RootDir, FALSE)>>]}
           ELSE UNION {IF ~rl.ok
                       THEN {[ok |-> FALSE,
                              ops |-> <<Op("local", "list", RootDir, TRUE),
                                        Op("remote", "list", RootDir, FALSE)>>]}
                       ELSE {[ok |-> TRUE, job |-> PlannedJob(index, rule, p),
                              ops |-> <<Op("local", "list", RootDir, TRUE),
                                        Op("remote", "list", RootDir, TRUE)>>] :
                                p \in PlansOf(rule.direction, ll.entries, rl.entries)} :
                       rl \in SftpList(r)} :
           ll \in FsList(l)}

\* the local tree of the rules, or a local root that does not exist; the
\* remote tree with no, one or both files
MissingRoot == [files |-> NoFiles, dirs |-> {}]
TargetLocalStores == JobLocalStores \cup {MissingRoot}
TargetRemoteStores == JobRemoteStores \cup {JobStore(JobFiles(Paths, <<7, 9>>, 0))}

InitTarget ==
    /\ QueueIdle /\ TrustIdle /\ SyncIdle /\ HelpersIdle
    /\ direction = Push
    /\ remoteKind = SftpRemoteStore
    /\ local \in TargetLocalStores
    /\ remote \in TargetRemoteStores
    /\ clock = ClockStart
    /\ rules \in TargetRules(MaxRules)
    /\ ruleIdx = 1
    /\ planned = <<>>
    /\ warnings = <<>>

\* SftpRemoteStore::connect(target)? fails: nothing is planned
TargetConnectFails ==
    /\ pc = "start"
    /\ result' = "Err"
    /\ pc' = "connect_failed"
    /\ UNCHANGED <<ruleVars, serviceVars, storeVars, clock, planVars, execVars, jobVars>>

\* connected: progress(0, total_rules)
TargetConnected ==
    /\ pc = "start"
    /\ events' = Append(events, Progress(0, Max(Len(rules), 1)))
    /\ pc' = "planning"
    /\ UNCHANGED <<ruleVars, serviceVars, storeVars, clock, planVars, execVars, jobs,
                   jobIdx, limited, summary, completed, result>>

\* the loop went on to the next rule: progress(index + 1, total_rules)
RuleDone ==
    /\ ruleIdx' = ruleIdx + 1
    /\ events' = Append(events, Progress(ruleIdx, Max(Len(rules), 1)))
    /\ UNCHANGED <<ruleVars, queueVars, trustVars, helperVars, rules, clock, pc, planVars,
                   cursor, logs, jobs, jobIdx, limited, summary, completed, result>>

\* a failed rule that leaves no warning behind
PlanRuleFailsSilently ==
    /\ pc = "planning"
    /\ ruleIdx \in DOMAIN rules
    /\ \E res \in plan_single_job(ruleIdx, rules[ruleIdx], local, remote) :
          /\ ~res.ok
          /\ trace' = trace \o Traced(res.ops, ruleIdx, 0)
    /\ UNCHANGED <<planned, warnings, storeVars>>
    /\ RuleDone

\* a planned job whose first action is applied without being asked for
PlanRuleOkThenExecutes ==
    /\ pc = "planning"
    /\ ruleIdx \in DOMAIN rules
    /\ \E res \in plan_single_job(ruleIdx, rules[ruleIdx], local, remote) :
          /\ res.ok
          /\ planned' = Append(planned, res.job)
          /\ IF res.job.actions = <<>>
             THEN /\ trace' = trace \o Traced(res.ops, ruleIdx, 0)
                  /\ UNCHANGED storeVars
             ELSE \E o \in ExecuteAction(res.job.actions[1], local, remote, clock,
                                         remoteKind, limited) :
                     /\ local' = o.local
                     /\ remote' = o.remote
                     /\ trace' = trace \o Traced(res.ops, ruleIdx, 0)
                                       \o Traced(o.ops, ruleIdx, 1)
    /\ UNCHANGED warnings
    /\ RuleDone

\* Ok(job) => jobs.push(job)
PlanRuleOk ==
    /\ pc = "planning"
    /\ ruleIdx \in DOMAIN rules
    /\ \E res \in plan_single_job(ruleIdx, rules[ruleIdx], local, remote) :
          /\ res.ok
          /\ planned' = Append(planned, res.job)
          /\ trace' = trace \o Traced(res.ops, ruleIdx, 0)
    /\ UNCHANGED <<warnings, storeVars>>
    /\ RuleDone

\* Err(err) => warnings.push(..)
PlanRuleFails ==
    /\ pc = "planning"
    /\ ruleIdx \in DOMAIN rules
    /\ \E res \in plan_single_job(ruleIdx, rules[ruleIdx], local, remote) :
          /\ ~res.ok
          /\ trace' = trace \o Traced(res.ops, ruleIdx, 0)
    /\ warnings' = Append(warnings, Warning(ruleIdx, rules[ruleIdx]))
    /\ UNCHANGED <<planned, storeVars>>
    /\ RuleDone

\* an empty result handed back as a success
NoPlanGeneratedReturnsOk ==
    /\ pc = "planning"
    /\ ruleIdx = Len(rules) + 1
    /\ planned = <<>>
    /\ result' = "Ok"
    /\ pc' = "done"
    /\ UNCHANGED <<ruleVars, serviceVars, storeVars, clock, planVars, execVars, jobVars>>

\* if jobs.is_empty() { return Err(..) }
NoPlanGenerated ==
    /\ pc = "planning"
    /\ ruleIdx = Len(rules) + 1
    /\ planned = <<>>
    /\ result' = "Err"
    /\ pc' = "done"
    /\ UNCHANGED <<ruleVars, serviceVars, storeVars, clock, planVars, execVars, jobVars>>

\* Ok(PlanJobsResult { jobs, warnings })
PlanJobsReturned ==
    /\ pc = "planning"
    /\ ruleIdx = Len(rules) + 1
    /\ planned # <<>>
    /\ result' = "Ok"
    /\ pc' = "done"
    /\ UNCHANGED <<ruleVars, serviceVars, storeVars, clock, planVars, execVars, jobVars>>

NextTarget ==
    \/ TargetConnectFails
    \/ TargetConnected
    \/ PlanRuleOk
    \/ PlanRuleFails
    \/ NoPlanGenerated
    \/ PlanJobsReturned
    \/ WorkerFinished

SpecTarget == InitTarget /\ [][NextTarget]_vars

----------------------------------------------------------------------------
(* resolve_remote_root: the remote root of a rule under the target's base  *)

\* paths as the characters of their OsStr
Separator == "/"
PathChars == {Separator, "a"}
RECURSIVE PathStrings(_)
PathStrings(n) ==
    IF n = 0 THEN {<<>>}
    ELSE LET shorter == PathStrings(n - 1)
         IN shorter \cup {Append(p, c) : p \in {x \in shorter : Len(x) = n - 1},
                                         c \in PathChars}

\* Path::is_absolute (Unix): the path has a root
is_absolute(path) == path # <<>> /\ Head(path) = Separator

\* Path::join / PathBuf::push: an absolute path replaces self; otherwise a
\* separator is added unless self is empty or already ends with one
join(self, path) ==
    IF is_absolute(path) THEN path
    ELSE IF self # <<>> /\ self[Len(self)] # Separator
         THEN self \o <<Separator>> \o path
         ELSE self \o path

\* the function without its check for an empty rule path
resolve_remote_rootJoinsEmpty(base_root, rule_path) ==
    IF is_absolute(rule_path) THEN rule_path
    ELSE IF base_root = <<>> THEN rule_path
    ELSE join(base_root, rule_path)

resolve_remote_root(base_root, rule_path) ==
    IF is_absolute(rule_path) THEN rule_path
    ELSE IF base_root = <<>> THEN rule_path
    ELSE IF rule_path = <<>> THEN base_root
    ELSE join(base_root, rule_path)

InitResolve ==
    /\ StoresIdle /\ SyncIdle /\ QueueIdle /\ TrustIdle /\ TargetIdle /\ LimiterIdle /\ SessionIdle
    /\ base_path \in PathStrings(MaxPathLen)
    /\ rule_remote \in PathStrings(MaxPathLen)
    /\ resolved = <<>>

\* plan_single_job: resolved_rule.remote = resolve_remote_root(..)
Resolve ==
    /\ pc = "start"
    /\ resolved' = resolve_remote_root(base_path, rule_remote)
    /\ pc' = "resolved"
    /\ UNCHANGED <<ruleVars, queueVars, trustVars, targetVars, limiterVars, sessionVars, base_path,
                   rule_remote,
                   storeVars, clock, planVars, execVars, jobVars, result>>

\* a store operation together with the root directory it was given
RootOp(store, op, root) == [store |-> store, op |-> op, root |-> root]

\* the kinds of action a plan can hold
ActionKinds == {"Upload", "Download", "DeleteRemote", "DeleteLocal"}
ActionLists ==
    {<<>>} \cup {<<k>> : k \in ActionKinds}
           \cup {<<k1, k2>> : k1 \in ActionKinds, k2 \in ActionKinds}

\* the executor resolving the remote root against the base path once more
execute_rootResolvedAgain(job) == resolve_remote_root(base_path, job.plan.rule.remote)

\* execute: every remote operation is given plan.rule.remote
execute_root(job) == job.plan.rule.remote

\* execute: the remote operations one action makes (the local file of an
\* upload was read)
remote_ops(kind) ==
    CASE kind = "Upload" -> <<"ensure_dir", "write_file">>
      [] kind = "Download" -> <<"read_file">>
      [] kind = "DeleteRemote" -> <<"remove_file">>
      [] OTHER -> <<>>

RECURSIVE ExecutedRemoteOps(_, _)
ExecutedRemoteOps(kinds, root) ==
    IF kinds = <<>> THEN <<>>
    ELSE LET ops == remote_ops(Head(kinds))
         IN [i \in 1..Len(ops) |-> RootOp("remote", ops[i], root)]
            \o ExecutedRemoteOps(Tail(kinds), root)

\* PlannedJob::into_sync_job: the job's rule and its plan's rule are both the
\* planned (resolved) rule
into_sync_job(job) ==
    [rule |-> job.rule, plan |-> [rule |-> job.rule, actions |-> job.actions]]

rootFrame ==
    <<ruleVars, queueVars, trustVars, rules, ruleIdx, warnings, helperVars, storeVars,
      clock, planVars, cursor, logs, jobIdx, limited, summary, completed, events, result>>

\* plan_single_job after the root is resolved: the remote listing is made
\* under the resolved root and the job keeps the resolved rule
ListResolvedRoot ==
    /\ pc = "resolved"
    /\ trace' = Append(trace, RootOp("remote", "list", resolved))
    /\ \E acts \in ActionLists :
           planned' = <<[rule |-> [remote |-> resolved], actions |-> acts]>>
    /\ pc' = "planned"
    /\ UNCHANGED <<rootFrame, jobs>>

\* plan_single_job: remote.list(..)? fails and no job is made
ListResolvedRootFails ==
    /\ pc = "resolved"
    /\ trace' = Append(trace, RootOp("remote", "list", resolved))
    /\ pc' = "plan_failed"
    /\ UNCHANGED <<rootFrame, jobs, planned>>

\* AppState::apply_planned_jobs: the planned job becomes a SyncJob
ApplyPlannedJob ==
    /\ pc = "planned"
    /\ jobs' = <<into_sync_job(planned[1])>>
    /\ pc' = "applied"
    /\ UNCHANGED <<rootFrame, trace, planned>>

\* SyncExecutor::execute on the job's plan
ExecuteUnderRoot ==
    /\ pc = "applied"
    /\ trace' = trace \o ExecutedRemoteOps(jobs[1].plan.actions, execute_root(jobs[1]))
    /\ pc' = "executed"
    /\ UNCHANGED <<rootFrame, jobs, planned>>

NextResolve ==
    \/ Resolve
    \/ ListResolvedRoot
    \/ ListResolvedRootFails
    \/ ApplyPlannedJob
    \/ ExecuteUnderRoot

SpecResolve == InitResolve /\ [][NextResolve]_vars

----------------------------------------------------------------------------
(* BandwidthLimiter: the allowance SyncExecutor::throttle consumes          *)

\* the clock is read in ticks of the time one byte takes at the limit, so
\* that refills and sleeps are whole numbers of ticks; a limit of 0 comes
\* from bandwidth_mbps = 0
TicksPerSec == 2
Limits == {0, TicksPerSec}
Bytes == 0..MaxBytes

\* BandwidthLimiter::new
BandwidthLimiter(limit, now) ==
    [limit_per_sec |-> limit, allowance |-> limit, last_check |-> now]

\* the refill that forgets the cap
RefilledUncapped(lim, now) ==
    lim.allowance + ((now - lim.last_check) * lim.limit_per_sec) \div TicksPerSec

\* (self.allowance + elapsed * self.limit_per_sec).min(self.limit_per_sec)
Refilled(lim, now) ==
    Min(lim.allowance + ((now - lim.last_check) * lim.limit_per_sec) \div TicksPerSec,
        lim.limit_per_sec)

\* a deficit taken as it is
clampNothing(x, lo, hi) == x

\* f64::clamp
clamp(x, lo, hi) == Max(lo, Min(x, hi))

\* BandwidthLimiter::consume: the limiter afterwards and the ticks slept;
\* deficit / 0.0 is not finite and is not slept
consume(lim, now, bytes) ==
    LET allowance == Refilled(lim, now)
        deficit == bytes - allowance
    IN IF allowance >= bytes
       THEN [limiter |-> [lim EXCEPT !.allowance = allowance - bytes,
                                     !.last_check = now],
             refilled |-> allowance, sleep |-> 0]
       ELSE [limiter |-> [lim EXCEPT !.allowance = lim.limit_per_sec
                                        - clamp(deficit, 0, lim.limit_per_sec),
                                     !.last_check = now],
             refilled |-> allowance,
             sleep |-> IF lim.limit_per_sec = 0 THEN 0
                       ELSE (deficit * TicksPerSec) \div lim.limit_per_sec]

\* all bytes whose consume call has returned
RECURSIVE Consumed(_)
Consumed(cs) == IF cs = <<>> THEN 0 ELSE Head(cs).bytes + Consumed(Tail(cs))

InitLimiter ==
    /\ StoresIdle /\ SyncIdle /\ QueueIdle /\ TrustIdle /\ TargetIdle /\ RootIdle /\ SessionIdle
    /\ instant = 0
    /\ limiter \in {BandwidthLimiter(limit, instant) : limit \in Limits}
    /\ consumes = <<>>

\* time passes between two transfers
Elapse ==
    /\ instant < MaxInstant
    /\ instant' = instant + 1
    /\ UNCHANGED <<limiter, consumes, ruleVars, storeVars, clock, pc, planVars, execVars,
                   jobVars, result, queueVars, trustVars, targetVars, rootVars, sessionVars>>

\* SyncExecutor::throttle(bytes): guard.consume(bytes), from the call to its
\* return; thread::sleep may return late
Consume(bytes) ==
    /\ Len(consumes) < MaxConsumes
    /\ LET c == consume(limiter, instant, bytes)
       IN /\ \E late \in {0, 1} :
                /\ c.sleep = 0 => late = 0
                /\ instant' = instant + c.sleep + late
                /\ instant' <= MaxInstant
          /\ limiter' = c.limiter
          /\ consumes' = Append(consumes,
                                [bytes |-> bytes, called |-> instant,
                                 before |-> limiter, refilled |-> c.refilled,
                                 sleep |-> c.sleep, after |-> c.limiter,
                                 returned |-> instant'])
    /\ UNCHANGED <<ruleVars, storeVars, clock, pc, planVars, execVars, jobVars, result,
                   queueVars, trustVars, targetVars, rootVars, sessionVars>>

NextLimiter ==
    \/ Elapse
    \/ \E bytes \in Bytes : Consume(bytes)

SpecLimiter == InitLimiter /\ [][NextLimiter]_vars

----------------------------------------------------------------------------
(* SyncJob::to_session: the caller-visible session of a planned job         *)

SyncStatusIdle == "Idle"
AwaitingConfirmation == "AwaitingConfirmation"
NoSession == [derived |-> FALSE]

SyncSession(status, pending) == [status |-> status, pending_actions |-> pending]

\* SyncJob::pending_actions
pending_actions(job) == Len(job.plan.actions)

\* a session that always waits for confirmation
to_sessionAlwaysAwaiting(job) == SyncSession(AwaitingConfirmation, pending_actions(job))

to_session(job) ==
    SyncSession(IF job.plan.actions = <<>> THEN SyncStatusIdle ELSE AwaitingConfirmation,
                pending_actions(job))

InitSession ==
    /\ QueueIdle /\ TrustIdle /\ TargetIdle /\ RootIdle /\ LimiterIdle
    /\ direction = Push
    /\ remoteKind = SftpRemoteStore
    /\ local \in JobLocalStores
    /\ remote \in JobRemoteStores
    /\ clock = ClockStart
    /\ pc = "start"
    /\ plan = NoPlan /\ replay = NoPlan /\ replan = NoPlan
    /\ cursor = 1 /\ logs = <<>> /\ trace = <<>>
    /\ \E ll \in FsList(local), rl \in SftpList(remote) :
          /\ ll.ok /\ rl.ok
          /\ jobs \in JobLists(MaxJobs, ll.entries, rl.entries)
    /\ jobIdx = 1
    /\ limited = FALSE
    /\ summary = ExecutionSummaryDefault
    /\ completed = 0
    /\ events = <<>>
    /\ result = "none"
    /\ sessions = [i \in DOMAIN jobs |-> NoSession]
    /\ next_session_id = 1 /\ task_progress = {} /\ transfer_logs = <<>>

\* the caller derives the session of job i
ToSession(i) ==
    /\ sessions[i] = NoSession
    /\ sessions' = [sessions EXCEPT ![i] = to_session(jobs[i])]
    /\ UNCHANGED <<ruleVars, storeVars, clock, pc, planVars, execVars, jobVars, result,
                   queueVars, trustVars, targetVars, rootVars, limiterVars,
                   next_session_id, task_progress, transfer_logs>>

NextSession == \E i \in DOMAIN jobs : ToSession(i)

SpecSession == InitSession /\ [][NextSession]_vars

----------------------------------------------------------------------------
(* AppState: the jobs and sessions kept for the targets                    *)

\* the ids of the targets, and the highest session id handed out
TargetIds == {1, 2}
MaxSessionId == 4
\* the warnings logged at most
MaxWarnings == 1

\* the PlanJobsResult of planning target t: up to two jobs, with or without
\* actions, and possibly a warning
PlannedFor(t) ==
    {[target_id |-> t, rule |-> [remote |-> <<>>], actions |-> acts] :
        acts \in {<<>>, <<"Upload">>}}
PlanJobsResults(t) ==
    {[jobs |-> js, warnings |-> ws] :
        js \in {<<>>} \cup {<<j>> : j \in PlannedFor(t)}
                      \cup {<<j, k>> : j \in PlannedFor(t), k \in PlannedFor(t)},
        ws \in {<<>>, <<"warning">>}}

\* a retain that keeps every job
retainAll(js, target_id) == js

\* self.jobs.retain(|job| job.target_id != target_id)
retain(js, target_id) == SelectSeq(js, LAMBDA job : job.target_id # target_id)

\* PlannedJob::into_sync_job(id) as AppState stores it: the job with its
\* session id and its target
StoredJob(planned_job, id) ==
    [id |-> id, target_id |-> planned_job.target_id] @@ into_sync_job(planned_job)

\* SyncJob::to_session with the id and target_id it copies from the job
SessionOf(job) == [id |-> job.id, target_id |-> job.target_id] @@ to_session(job)

\* refresh_sessions: self.jobs.iter().map(SyncJob::to_session).collect()
refresh_sessions(js) == [i \in DOMAIN js |-> SessionOf(js[i])]

appFrame ==
    <<ruleVars, storeVars, clock, pc, planVars, execVars, jobIdx, limited, summary,
      completed, events, result, queueVars, trustVars, targetVars, rootVars, limiterVars>>

InitApp ==
    /\ StoresIdle /\ SyncIdle /\ QueueIdle /\ TrustIdle /\ TargetIdle /\ HelpersIdle

\* AppState::apply_planned_jobs(target_id, result); next_session_id() hands
\* out the ids one after the other (its saturating_add does not saturate
\* below 2^64 ids)
ApplyPlannedJobs(target_id, res) ==
    /\ next_session_id + Len(res.jobs) <= MaxSessionId + 1
    /\ Len(transfer_logs) + Len(res.warnings) <= MaxWarnings
    /\ LET kept == retain(jobs, target_id)
           pushed == [i \in DOMAIN res.jobs |->
                         StoredJob(res.jobs[i], next_session_id + i - 1)]
       IN /\ jobs' = kept \o pushed
          /\ sessions' = refresh_sessions(kept \o pushed)
    /\ transfer_logs' = transfer_logs \o res.warnings
    /\ next_session_id' = next_session_id + Len(res.jobs)
    /\ UNCHANGED <<appFrame, task_progress>>

\* AppState::drop_jobs_for_target(target_id)
DropJobsForTarget(target_id) ==
    /\ jobs' = retain(jobs, target_id)
    /\ task_progress' = task_progress \ {target_id}
    /\ sessions' = refresh_sessions(retain(jobs, target_id))
    /\ UNCHANGED <<appFrame, next_session_id, transfer_logs>>

\* AppState::set_task_progress(target_id, progress)
SetTaskProgress(target_id) ==
    /\ task_progress' = task_progress \cup {target_id}
    /\ UNCHANGED <<appFrame, jobs, sessions, next_session_id, transfer_logs>>

NextApp ==
    \/ \E t \in TargetIds : \E res \in PlanJobsResults(t) : ApplyPlannedJobs(t, res)
    \/ \E t \in TargetIds : DropJobsForTarget(t)
    \/ \E t \in TargetIds : SetTaskProgress(t)

SpecApp == InitApp /\ [][NextApp]_vars

----------------------------------------------------------------------------
(* Properties of the planner *)

\* every plan made so far
Plans == {p \in {plan, replay, replan} : p.planned}
\* the positions of the actions of plan p that name path
ActionsFor(p, path) == {i \in DOMAIN p.actions : p.actions[i].rel_path = path}
KindsFor(p, path) == {p.actions[i].kind : i \in ActionsFor(p, path)}
InLocal(p, path) == contains_key(p.local_index, path)
InRemote(p, path) == contains_key(p.remote_index, path)
LocalTime(p, path) == get(p.local_index, path).modified
RemoteTime(p, path) == get(p.remote_index, path).modified

\* C1: computing the plan twice from the same two listings (index_entries on
\* each listing, then diff_actions) yields the same ordered action list and
\* the same stats.
C1_PlanIsDeterministic ==
    pc = "replayed" =>
        /\ replay.actions = plan.actions
        /\ replay.stats = plan.stats

\* C2: a Push plan holds no Download and no DeleteLocal; a Pull plan holds no
\* Upload and no DeleteRemote.
C2_DirectionExcludesKinds ==
    \A p \in Plans : \A i \in DOMAIN p.actions :
        /\ p.rule.direction = Push => p.actions[i].kind \notin {"Download", "DeleteLocal"}
        /\ p.rule.direction = Pull => p.actions[i].kind \notin {"Upload", "DeleteRemote"}

\* a Push plan was made where a Download or DeleteLocal would be the wrong
\* answer: one path only on the remote side, or newer there
C2_Witness ==
    /\ plan.planned
    /\ plan.rule.direction = Push
    /\ \E path \in Paths : InRemote(plan, path) /\ ~InLocal(plan, path)
    /\ \E path \in Paths :
          /\ InRemote(plan, path) /\ InLocal(plan, path)
          /\ RemoteTime(plan, path) - LocalTime(plan, path) > SKEW

\* C3: a Conflict action for a path appears only in a Bidirectional plan, for
\* a path in both snapshots, with both sides newer than the other beyond the
\* tolerance; Push and Pull plans hold no Conflict.
C3_ConflictOnlyWhenBothNewer ==
    \A p \in Plans : \A i \in DOMAIN p.actions :
        p.actions[i].kind = "Conflict" =>
            LET path == p.actions[i].rel_path
            IN /\ p.rule.direction = Bidirectional
               /\ InLocal(p, path) /\ InRemote(p, path)
               /\ LocalTime(p, path) - RemoteTime(p, path) > SKEW
               /\ RemoteTime(p, path) - LocalTime(p, path) > SKEW

\* a Bidirectional plan was made over a path in both snapshots whose local
\* copy is newer beyond the tolerance, and it plans an Upload, not a Conflict
C3_Witness ==
    /\ plan.planned
    /\ plan.rule.direction = Bidirectional
    /\ \E path \in Paths :
          /\ InLocal(plan, path) /\ InRemote(plan, path)
          /\ LocalTime(plan, path) - RemoteTime(plan, path) > SKEW
          /\ KindsFor(plan, path) = {"Upload"}

\* C6: a path in exactly one snapshot gets exactly one action: local-only is
\* Upload under Push and Bidirectional and DeleteLocal under Pull; remote-only
\* is DeleteRemote under Push and Download under Pull and Bidirectional.
C6_OneSidedPaths ==
    \A p \in Plans : \A path \in Paths :
        /\ (InLocal(p, path) /\ ~InRemote(p, path)) =>
              /\ Cardinality(ActionsFor(p, path)) = 1
              /\ KindsFor(p, path) =
                    IF p.rule.direction = Pull THEN {"DeleteLocal"} ELSE {"Upload"}
        /\ (InRemote(p, path) /\ ~InLocal(p, path)) =>
              /\ Cardinality(ActionsFor(p, path)) = 1
              /\ KindsFor(p, path) =
                    IF p.rule.direction = Push THEN {"DeleteRemote"} ELSE {"Download"}

\* a Pull plan over one local-only and one remote-only path
C6_Witness ==
    /\ plan.planned
    /\ plan.rule.direction = Pull
    /\ \E path \in Paths : InLocal(plan, path) /\ ~InRemote(plan, path)
    /\ \E path \in Paths : InRemote(plan, path) /\ ~InLocal(plan, path)
    /\ Len(plan.actions) = 2

\* C7: for a path in both snapshots with local time l and remote time r, Push
\* uploads iff l - r > 500 ms, Pull downloads iff r - l > 500 ms, and
\* Bidirectional uploads when only l - r > 500 ms, downloads when only
\* r - l > 500 ms and does nothing when neither holds; exactly 500 ms is not
\* newer.
C7_TimestampRule ==
    \A p \in Plans : \A path \in Paths :
        (InLocal(p, path) /\ InRemote(p, path)) =>
            LET l == LocalTime(p, path)
                r == RemoteTime(p, path)
                kinds == KindsFor(p, path)
            IN /\ Cardinality(ActionsFor(p, path)) <= 1
               /\ p.rule.direction = Push =>
                     kinds = IF l - r > SKEW THEN {"Upload"} ELSE {}
               /\ p.rule.direction = Pull =>
                     kinds = IF r - l > SKEW THEN {"Download"} ELSE {}
               /\ p.rule.direction = Bidirectional =>
                     /\ (l - r > SKEW /\ ~(r - l > SKEW)) => kinds = {"Upload"}
                     /\ (r - l > SKEW /\ ~(l - r > SKEW)) => kinds = {"Download"}
                     /\ (~(l - r > SKEW) /\ ~(r - l > SKEW)) => kinds = {}
               /\ (l - r = SKEW \/ r - l = SKEW) => kinds = {}

\* a Push plan over a path whose local copy is newer by exactly 500 ms, and
\* another path whose local copy is newer by more
C7_Witness ==
    /\ plan.planned
    /\ plan.rule.direction = Push
    /\ \E path \in Paths :
          /\ InLocal(plan, path) /\ InRemote(plan, path)
          /\ LocalTime(plan, path) - RemoteTime(plan, path) = SKEW
          /\ ActionsFor(plan, path) = {}
    /\ \E path \in Paths :
          /\ InLocal(plan, path) /\ InRemote(plan, path)
          /\ LocalTime(plan, path) - RemoteTime(plan, path) > SKEW
          /\ KindsFor(plan, path) = {"Upload"}

\* C8: each Upload names a key of the local snapshot and carries that
\* entry's size, each Download names a key of the remote snapshot and carries
\* that entry's size, and no action names a path absent from both snapshots.
C8_ActionsNameObservedEntries ==
    \A p \in Plans : \A i \in DOMAIN p.actions :
        LET a == p.actions[i]
        IN /\ a.kind = "Upload" =>
                 /\ InLocal(p, a.rel_path)
                 /\ a.size = get(p.local_index, a.rel_path).size
           /\ a.kind = "Download" =>
                 /\ InRemote(p, a.rel_path)
                 /\ a.size = get(p.remote_index, a.rel_path).size
           /\ InLocal(p, a.rel_path) \/ InRemote(p, a.rel_path)

\* a Pull plan downloads a path that is in both snapshots with different
\* sizes on the two sides
C8_Witness ==
    /\ plan.planned
    /\ \E i \in DOMAIN plan.actions :
          /\ plan.actions[i].kind = "Download"
          /\ InLocal(plan, plan.actions[i].rel_path)
          /\ get(plan.local_index, plan.actions[i].rel_path).size
                # get(plan.remote_index, plan.actions[i].rel_path).size

----------------------------------------------------------------------------
(* Properties of the executor *)

AllApplied ==
    /\ Len(logs) = Len(plan.actions)
    /\ \A i \in DOMAIN logs : logs[i].status = Applied

\* C4: after a plan is computed and executed with every action Applied
\* against stores that stamp a written file with the time of the write
\* (FsLocalStore, InMemoryRemote), planning the same rule again yields an
\* empty action list and all-zero stats, for every direction.
C4_ReplanIsEmpty ==
    (pc = "replanned" /\ remoteKind = InMemoryRemote /\ AllApplied) =>
        /\ replan.actions = <<>>
        /\ replan.stats = PlanStatsDefault

UploadsOnly ==
    /\ plan.planned
    /\ \A i \in DOMAIN plan.actions : plan.actions[i].kind = "Upload"

LocalReadsSucceeded ==
    \A k \in DOMAIN trace :
        (trace[k].store = "local" /\ trace[k].op = "read_file") => trace[k].ok

\* C5: executing a plan of Uploads only against the remote store double,
\* every local read succeeding, logs Applied for every action, and reading
\* each uploaded path from the remote store then returns the bytes the local
\* store holds for it.
C5_UploadsCopyBytes ==
    (pc = "executed" /\ remoteKind = InMemoryRemote /\ UploadsOnly
        /\ LocalReadsSucceeded) =>
        /\ Len(logs) = Len(plan.actions)
        /\ \A i \in DOMAIN plan.actions :
              LET path == plan.actions[i].rel_path
              IN /\ logs[i].status = Applied
                 /\ local.files[path] # Absent
                 /\ \A rd \in InMemoryRead(remote, path) :
                       rd.ok /\ rd.bytes = local.files[path].bytes

\* two files with different contents were uploaded to the double
C5_Witness ==
    /\ pc = "executed" /\ remoteKind = InMemoryRemote /\ UploadsOnly
    /\ Len(plan.actions) = 2
    /\ AllApplied
    /\ local.files[plan.actions[1].rel_path].bytes
          # local.files[plan.actions[2].rel_path].bytes

\* C9: execute returns one log entry per action, the i-th entry for the i-th
\* action, and every store operation of an action precedes every store
\* operation of the next one.
C9_LogsFollowPlanOrder ==
    /\ pc = "executing" =>
          /\ Len(logs) = cursor - 1
          /\ \A k \in DOMAIN trace : trace[k].act < cursor
    /\ pc \in {"executing", "executed"} =>
          /\ \A i \in DOMAIN logs :
                i <= Len(plan.actions) /\ logs[i].action = plan.actions[i]
          /\ \A j, k \in DOMAIN trace : j < k => trace[j].act <= trace[k].act
    /\ pc = "executed" => Len(logs) = Len(plan.actions)

\* a plan of two actions was executed, the first failed, the second was
\* applied, and both touched a store
C9_Witness ==
    /\ pc = "executed"
    /\ Len(plan.actions) = 2 /\ Len(logs) = 2
    /\ logs[1].status.kind = "Failed"
    /\ logs[2].status = Applied
    /\ \E j, k \in DOMAIN trace : trace[j].act = 1 /\ trace[k].act = 2

----------------------------------------------------------------------------
(* Properties of execute_jobs_with_progress *)

\* the actions of the batch that touch a store, as <<job, action>> positions
StoreActions ==
    UNION {{<<j, i>> : i \in {a \in DOMAIN jobs[j].plan.actions :
                                  jobs[j].plan.actions[a].kind # "Conflict"}} :
              j \in DOMAIN jobs}

Attempted(j, i) == \E k \in DOMAIN trace : trace[k].job = j /\ trace[k].act = i

\* C10: once connected, execute_jobs_with_progress completes the batch:
\* whatever actions fail, the only error it returns is the connection's, and
\* when it returns every action of every job that touches a store has been
\* attempted, the result is Ok, and applied + skipped + the number of
\* failures is the total number of actions across all jobs.
C10_BatchCompletes ==
    /\ result = "Err" => pc = "connect_failed"
    /\ pc = "running" => result = "none"
    /\ (pc = "done" /\ jobs # <<>>) =>
          /\ result = "Ok"
          /\ \A pos \in StoreActions : Attempted(pos[1], pos[2])
          /\ summary.applied + summary.skipped + Len(summary.failures)
                = total_actions(jobs)
          /\ completed = total_actions(jobs)

\* a batch of two jobs returned: an action of the first job failed, a
\* conflict was skipped, and an action of the second job was applied after
\* the failure
C10_Witness ==
    /\ pc = "done" /\ result = "Ok"
    /\ Len(jobs) = 2
    /\ summary.failures # <<>>
    /\ summary.skipped > 0
    /\ \E j, k \in DOMAIN trace :
          /\ j < k
          /\ trace[j].job = 1 /\ ~trace[j].ok
          /\ trace[k].job = 2 /\ trace[k].ok /\ trace[k].op = "write_file"

\* C11: executing a Conflict action yields SkippedConflict and makes no
\* operation on the local store, on the remote store or on the bandwidth
\* limiter; both stores are as they were.
C11_ConflictIsSkipped ==
    [][(/\ pc = "running"
        /\ jobIdx <= Len(jobs)
        /\ cursor <= Len(jobs[jobIdx].plan.actions)
        /\ jobs[jobIdx].plan.actions[cursor].kind = "Conflict"
        /\ cursor' = cursor + 1)
       => /\ logs' = Append(logs, ExecutionLog(jobs[jobIdx].plan.actions[cursor],
                                                SkippedConflict))
          /\ trace' = trace
          /\ local' = local
          /\ remote' = remote]_vars

\* with a limiter installed, the Conflict at the head of the first job has
\* been executed, and the action after it has then reached the stores
C11_Witness ==
    /\ pc = "running" /\ jobIdx = 1 /\ limited
    /\ Len(logs) = 2
    /\ logs[1].status = SkippedConflict
    /\ logs[2].status = Applied
    /\ \A k \in DOMAIN trace : trace[k].act = 2

\* C19: when connecting fails for a batch of at least one job, the task ends
\* with Finished(Err), no action of any job has been attempted and no
\* operation has been made on the local or the remote store.
C19_FailedConnectTouchesNothing ==
    /\ pc = "connect_failed" => result = "Err"
    /\ result = "Err" =>
          /\ jobs # <<>>
          /\ trace = <<>> /\ logs = <<>>
          /\ cursor = 1 /\ jobIdx = 1
          /\ summary = ExecutionSummaryDefault /\ completed = 0
          /\ local \in JobLocalStores /\ remote \in JobRemoteStores
          /\ pc = "connect_failed"
          /\ events \in {<<>>, <<Finished("Err")>>}

\* the connection failed for two jobs with actions to apply, and the worker
\* has sent Finished
C19_Witness ==
    /\ pc = "connect_failed" /\ result = "Err"
    /\ Len(jobs) = 2
    /\ \A j \in DOMAIN jobs : jobs[j].plan.actions # <<>>
    /\ events = <<Finished("Err")>>

----------------------------------------------------------------------------
(* Properties of the task queue *)

IsProgress(e) == "completed" \in DOMAIN e
IsFinished(e) == "finished" \in DOMAIN e

\* the total every Progress event of a task carries
TaskTotal(t) == IF t.kind = "Plan" THEN Max(t.rules, 1) ELSE Max(Sum(t.jobs), 1)

Running(s) == \E w \in Workers : workers[w].task = s
Ran(s) == \E w \in Workers : s \in workers[w].ran

\* C12: the events a worker sends on a submission's response channel are
\* Progress events followed by exactly one Finished, which is the last one,
\* and they are events of that submission's own task.
C12_ProgressThenFinished ==
    \A s \in Submissions :
        /\ \A i \in DOMAIN sent[s] :
              IF i < Len(sent[s]) \/ Running(s)
              THEN IsProgress(sent[s][i]) /\ sent[s][i].total = TaskTotal(tasks[s])
              ELSE IsFinished(sent[s][i])
        /\ Ran(s) => Terminated(s)
        /\ (sent[s] # <<>>) => (Running(s) \/ Ran(s))
        /\ \A i \in DOMAIN chan[s] :
              chan[s][i] = sent[s][Len(sent[s]) - Len(chan[s]) + i]

\* both workers have run a task to its end, a Plan of the most rules and an
\* Execute of the most actions, and each channel has taken its Finished
C12_Witness ==
    /\ tasks[1] = PlanTask(MaxSteps) /\ tasks[2] = ExecuteTask(<<1, MaxSteps - 1>>)
    /\ workers[1].ran = {1} /\ workers[2].ran = {2}
    /\ sent[1][Len(sent[1])] = Finished("Ok")
    /\ sent[2][Len(sent[2])] = Finished("Ok")
    /\ \A s \in Submissions : rx[s] = "open" /\ chan[s] # <<>>

\* C13: every Progress event a worker sends has total >= 1 and
\* 0 <= completed <= total, also for a target without rules and for jobs
\* without actions.
C13_ProgressWithinTotal ==
    \A s \in Submissions : \A i \in DOMAIN sent[s] :
        IsProgress(sent[s][i]) =>
            /\ sent[s][i].total >= 1
            /\ 0 <= sent[s][i].completed
            /\ sent[s][i].completed <= sent[s][i].total

\* a Plan of a target without rules and an Execute of one job without
\* actions have both been run to their end
C13_Witness ==
    /\ tasks[1] = PlanTask(0) /\ tasks[2] = ExecuteTask(<<0>>)
    /\ Terminated(1) /\ Len(sent[1]) = 3
    /\ Terminated(2) /\ Len(sent[2]) = 3

\* what a worker does once the receiver of its task is gone
DroppedStep ==
    \A w \in Workers :
        LET s == workers[w].task
        IN (s # 0 /\ rx[s] = "dropped" /\ workers'[w] # workers[w]) =>
              /\ chan'[s] = chan[s]
              /\ Len(sent'[s]) = Len(sent[s]) + 1
              /\ workers'[w].task \in {0, s}

\* C14: once the receiver of a submission is dropped before the terminal
\* event, every later send of the worker on that channel fails without
\* blocking (nothing is enqueued and the worker goes on), the worker runs
\* the task to its end and, idle again, takes the next queued task.
C14_DroppedReceiverIsHarmless ==
    /\ [](\A w \in Workers :
            /\ (workers[w].task # 0 /\ rx[workers[w].task] = "dropped") =>
                  ENABLED (WorkerPlan(w) \/ WorkerExecute(w))
            /\ (workers[w].task = 0 /\ queue # <<>>) => ENABLED Take(w))
    /\ [][DroppedStep]_vars

\* the receiver of the first submission was dropped before its terminal
\* event, worker 1 ran that task to its end and is now running the second
C14_Witness ==
    /\ rx[1] = "dropped"
    /\ Terminated(1)
    /\ Len(sent[1]) > ResponseCapacity
    /\ workers[1].ran = {1}
    /\ workers[1].task = 2 /\ workers[1].step > 0

\* C15: a worker's send on a full response channel whose receiver is alive
\* is best-effort and does not block the worker.
C15_FullChannelDoesNotBlock ==
    \A w \in Workers :
        (workers[w].task # 0 /\ rx[workers[w].task] = "open"
            /\ Len(chan[workers[w].task]) = ResponseCapacity) =>
            ENABLED (WorkerPlan(w) \/ WorkerExecute(w))

----------------------------------------------------------------------------
(* Properties of the host trust store *)

Accepted(v) == v.verdict.check \in {"New", "Match"}

\* C16: under every interleaving of verify_host calls, once a verification
\* of a host with fingerprint f has returned New or Match, every later
\* verification of that host with another fingerprint returns Mismatch: two
\* fingerprints are never both accepted for one host, and a stored
\* fingerprint is never replaced.
C16_FirstFingerprintStays ==
    \A i, j \in DOMAIN verdicts :
        (i < j /\ Accepted(verdicts[i])) =>
            /\ (verdicts[j].host = verdicts[i].host
                   /\ verdicts[j].presented # verdicts[i].presented) =>
                  verdicts[j].verdict.check = "Mismatch"
            /\ Entry(verdicts[j].after, verdicts[i].host)
                  \in {verdicts[i].presented, NoEntry}

\* C17: in a sequential run, verify_host(h, f) for a host without a stored
\* entry returns New and persists h -> f, every other host's entry staying
\* as it was, and a following verify_host(h, f) returns Match and does not
\* write the store.
C17_TrustOnFirstUse ==
    \A i \in DOMAIN verdicts :
        LET v == verdicts[i]
        IN (~v.raced /\ Entry(v.before, v.host) = NoEntry) =>
              /\ v.verdict = HostNew
              /\ \A h \in Hosts :
                    Entry(v.after, h) = IF h = v.host THEN v.presented
                                        ELSE Entry(v.before, h)
              /\ \A j \in DOMAIN verdicts :
                    (j = i + 1 /\ ~verdicts[j].raced /\ verdicts[j].host = v.host
                        /\ verdicts[j].presented = v.presented) =>
                        /\ verdicts[j].verdict = HostMatch
                        /\ verdicts[j].after = verdicts[j].before

\* C18: when the stored fingerprint of a host is f and the fingerprint
\* presented is g # f, verify_host returns Mismatch{expected: f, got: g} and
\* leaves the trust store as it is, and establish_session returns an error
\* without attempting any authentication.
C18_MismatchIsFatal ==
    \A i \in DOMAIN verdicts :
        LET v == verdicts[i]
            f == Entry(v.before, v.host)
        IN (~v.raced /\ f # NoEntry /\ f # v.presented) =>
              /\ v.verdict = HostMismatch(f, v.presented)
              /\ v.after = v.before
              /\ ~calls[v.call].auth
              /\ calls[v.call].result = "Err"

----------------------------------------------------------------------------
(* Properties of target planning *)

\* the positions in target.rules a sequence of jobs or warnings came from
Indexes(s) == [k \in DOMAIN s |-> s[k].index]
Increasing(s) == \A i, j \in DOMAIN s : i < j => s[i] < s[j]

\* C20: a rule whose listing fails adds exactly one warning and planning goes
\* on with the next rule: after every rule handled so far there is either
\* its job or its warning, jobs and warnings each in rule order, and when
\* planning returns Ok every rule has been handled, so that jobs + warnings
\* = rules.
C20_FailedRuleBecomesWarning ==
    pc \in {"planning", "done"} =>
        /\ Len(planned) + Len(warnings) = ruleIdx - 1
        /\ Range(Indexes(planned)) \cup Range(Indexes(warnings)) = 1..(ruleIdx - 1)
        /\ Increasing(Indexes(planned)) /\ Increasing(Indexes(warnings))
        /\ \A k \in DOMAIN planned : planned[k].rule = rules[planned[k].index]
        /\ \A k \in DOMAIN warnings : warnings[k].rule = rules[warnings[k].index].local
        /\ result = "Ok" =>
              /\ Len(planned) + Len(warnings) = Len(rules)
              /\ planned # <<>>

\* planning returned Ok although the listing of the second of three rules
\* failed: the first and the third rule have their jobs
C20_Witness ==
    /\ pc = "done" /\ result = "Ok"
    /\ Len(rules) = 3
    /\ Indexes(planned) = <<1, 3>>
    /\ Indexes(warnings) = <<2>>

\* C21: a successful planning result holds at least one job. When every rule
\* of the target failed to plan, or the target has no rules, planning returns
\* Err and the only Finished event the Plan task sends carries that Err.
C21_OkPlanHasJobs ==
    /\ result = "Ok" => planned # <<>>
    /\ (pc = "done" /\ planned = <<>>) => result = "Err"
    /\ \A i \in DOMAIN events :
          "finished" \in DOMAIN events[i] =>
              /\ events[i] = Finished(result)
              /\ i = Len(events)
              /\ planned = <<>> => events[i] = Finished("Err")

\* both rules of a target failed to list and the task finished with Err
C21_Witness ==
    /\ pc = "done"
    /\ Len(rules) = 2
    /\ Len(warnings) = 2
    /\ planned = <<>>
    /\ events # <<>> /\ events[Len(events)] = Finished("Err")

----------------------------------------------------------------------------
(* Properties of resolve_remote_root *)

\* C22: resolve_remote_root returns the rule's remote path unchanged when it
\* is absolute, the base itself when the rule's path is empty, and the base
\* joined with the rule's path when that path is relative and not empty and
\* the base is not empty.
C22_RemoteRootResolved ==
    pc = "resolved" =>
        /\ is_absolute(rule_remote) => resolved = rule_remote
        /\ rule_remote = <<>> => resolved = base_path
        /\ (~is_absolute(rule_remote) /\ rule_remote # <<>> /\ base_path # <<>>) =>
              /\ resolved = join(base_path, rule_remote)
              /\ \E sep \in {<<>>, <<Separator>>} :
                    resolved = base_path \o sep \o rule_remote

\* an empty rule path under the base /a resolved to /a, without a separator
\* added
C22_Witness ==
    /\ pc = "resolved"
    /\ base_path = <<Separator, "a">>
    /\ rule_remote = <<>>
    /\ resolved = <<Separator, "a">>

----------------------------------------------------------------------------
(* Properties of the bandwidth limiter *)

C24_CeilingRespected ==
    limiter # <<>> =>
        Consumed(consumes) * TicksPerSec
            <= limiter.limit_per_sec * (instant + TicksPerSec)

----------------------------------------------------------------------------
(* Properties of sessions *)

\* C26: the session to_session derives from a job is Idle exactly when the
\* job's plan has no actions and AwaitingConfirmation otherwise, and its
\* pending_actions is the number of actions of the plan.
C26_SessionStatusFollowsPlan ==
    \A i \in DOMAIN sessions :
        sessions[i] # NoSession =>
            /\ sessions[i].status = SyncStatusIdle <=> jobs[i].plan.actions = <<>>
            /\ sessions[i].status # SyncStatusIdle =>
                  sessions[i].status = AwaitingConfirmation
            /\ sessions[i].pending_actions = Len(jobs[i].plan.actions)

\* of two jobs one has nothing to do and is Idle, the other waits for
\* confirmation with its actions pending
C26_Witness ==
    \E i, j \in DOMAIN sessions :
        /\ sessions[i] = SyncSession(SyncStatusIdle, 0)
        /\ jobs[i].plan.actions = <<>>
        /\ sessions[j] # NoSession
        /\ sessions[j].status = AwaitingConfirmation
        /\ sessions[j].pending_actions > 0

\* C25: processing a Plan task only lists the two stores. It makes no
\* write_file, remove_file or ensure_dir on either store and neither submits
\* nor starts an Execute task: the stores, the task queue and the executor
\* stay as they were, so the actions of a planned job wait for a separate
\* submit_execute.
C25_PlanningOnlyLists ==
    /\ [](\A i \in DOMAIN trace : trace[i].op = "list")
    /\ [][UNCHANGED <<storeVars, queueVars, jobs, jobIdx, cursor, logs, summary>>]_vars

\* planning returned a job with pending actions; both stores were listed and
\* nothing has been submitted or executed
C25_Witness ==
    /\ pc = "done" /\ result = "Ok"
    /\ \E k \in DOMAIN planned : planned[k].actions # <<>>
    /\ \E i \in DOMAIN trace : trace[i].store = "remote" /\ trace[i].ok
    /\ queue = <<>> /\ jobs = <<>> /\ logs = <<>>

----------------------------------------------------------------------------
(* Further properties of the planner *)

\* C27, as stated: under Bidirectional the (true, true) case is reachable:
\* there are local and remote modification times for a path present in both
\* snapshots for which the plan contains a Conflict for that path. (Asked
\* of the planner before it runs, over all the times of the grid.)
C27_ConflictReachable ==
    pc = "start" =>
        \E lt \in Times, rt \in Times, path \in Paths, ls \in 1..2, rs \in 1..2 :
            \E li \in index_entries(<<FileEntry(path, ls, lt)>>),
               ri \in index_entries(<<FileEntry(path, rs, rt)>>) :
                Conflict(path) \in Range(diff_actions(Bidirectional, li, ri).actions)

\* C27, amended: newer(l, r) and newer(r, l) never hold together, so the
\* (true, true) case of diff_actions is not reachable: no plan holds a
\* Conflict and stats.conflicts is 0, whatever the two modification times.
C27_ConflictNeverPlanned ==
    \A p \in Plans :
        /\ \A i \in DOMAIN p.actions : p.actions[i].kind # "Conflict"
        /\ p.stats.conflicts = 0
        /\ \A path \in Paths :
              (InLocal(p, path) /\ InRemote(p, path)) =>
                  ~(newer(LocalTime(p, path), RemoteTime(p, path))
                      /\ newer(RemoteTime(p, path), LocalTime(p, path)))

\* a Bidirectional plan over two paths in both snapshots, one newer on the
\* local side and one newer on the remote side beyond the tolerance: it
\* plans an Upload and a Download and no Conflict
C27_Witness ==
    /\ plan.planned
    /\ plan.rule.direction = Bidirectional
    /\ \E path, other \in Paths :
          /\ InLocal(plan, path) /\ InRemote(plan, path)
          /\ InLocal(plan, other) /\ InRemote(plan, other)
          /\ LocalTime(plan, path) - RemoteTime(plan, path) > SKEW
          /\ RemoteTime(plan, other) - LocalTime(plan, other) > SKEW
          /\ KindsFor(plan, path) = {"Upload"}
          /\ KindsFor(plan, other) = {"Download"}

\* C28: in every plan's action list, every action for a path of the local
\* snapshot (decided in the local pass) precedes every action for a path that
\* is only in the remote snapshot.
C28_LocalPassFirst ==
    \A p \in Plans : \A i, j \in DOMAIN p.actions :
        (/\ InLocal(p, p.actions[i].rel_path)
         /\ ~InLocal(p, p.actions[j].rel_path)
         /\ InRemote(p, p.actions[j].rel_path)) =>
            /\ i < j
            /\ p.actions[i].kind \in {"Upload", "DeleteLocal", "Download", "Conflict"}
            /\ p.actions[j].kind \in {"DeleteRemote", "Download"}

\* a plan with an action for a local path and, after it, an action for a
\* path found only on the remote side, which the listing walks first
C28_Witness ==
    /\ plan.planned
    /\ Len(plan.actions) = 2
    /\ InLocal(plan, plan.actions[1].rel_path)
    /\ ~InLocal(plan, plan.actions[2].rel_path)
    /\ plan.actions[1].rel_path = PathOrder[2]
    /\ plan.actions[2].rel_path = PathOrder[1]

\* the positions of the actions of plan p that are of kind k
ActionsOfKind(p, k) == {i \in DOMAIN p.actions : p.actions[i].kind = k}

\* C29: each field of a plan's stats is the number of actions of its kind in
\* the action list, and the five counts add up to the length of the list.
C29_StatsCountActions ==
    \A p \in Plans :
        /\ p.stats.uploads = Cardinality(ActionsOfKind(p, "Upload"))
        /\ p.stats.downloads = Cardinality(ActionsOfKind(p, "Download"))
        /\ p.stats.deletes_remote = Cardinality(ActionsOfKind(p, "DeleteRemote"))
        /\ p.stats.deletes_local = Cardinality(ActionsOfKind(p, "DeleteLocal"))
        /\ p.stats.conflicts = Cardinality(ActionsOfKind(p, "Conflict"))
        /\ p.stats.uploads + p.stats.downloads + p.stats.deletes_remote
              + p.stats.deletes_local + p.stats.conflicts = Len(p.actions)

\* a plan with one Upload and one Download, counted one each
C29_Witness ==
    /\ plan.planned
    /\ Len(plan.actions) = 2
    /\ plan.stats.uploads = 1
    /\ plan.stats.downloads = 1
    /\ KindsFor(plan, PathOrder[1]) \cup KindsFor(plan, PathOrder[2]) = {"Upload", "Download"}

----------------------------------------------------------------------------
(* Further properties of the executor *)

\* the steps of a transfer, in the order the claim gives them
TransferSteps(a, lim) ==
    LET src == IF a.kind = "Upload" THEN "local" ELSE "remote"
        dst == IF a.kind = "Upload" THEN "remote" ELSE "local"
    IN <<[store |-> src, op |-> "read_file", path |-> a.rel_path],
         [store |-> dst, op |-> "ensure_dir", path |-> Parent(a.rel_path)]>>
         \o (IF lim THEN <<[store |-> "limiter", op |-> "consume", path |-> a.rel_path]>>
             ELSE <<>>)
         \o <<[store |-> dst, op |-> "write_file", path |-> a.rel_path]>>

\* one Upload or Download has just been executed
TransferStep ==
    /\ pc = "running"
    /\ jobIdx <= Len(jobs)
    /\ cursor <= Len(jobs[jobIdx].plan.actions)
    /\ jobs[jobIdx].plan.actions[cursor].kind \in {"Upload", "Download"}
    /\ cursor' = cursor + 1

\* C30: an Upload reads from the local store, ensures the parent directory on
\* the remote store, throttles, then writes to the remote store, in that
\* order. The first step that fails ends the action with Failed and none of
\* the later steps is made: a failed read leaves both stores as they were and
\* consumes no allowance. Each step is made at most once (no retry). A
\* Download is the same with the two stores swapped.
C30_TransferStepsInOrder ==
    [][TransferStep =>
         LET a == jobs[jobIdx].plan.actions[cursor]
             steps == TransferSteps(a, limited)
             new == SubSeq(trace', Len(trace) + 1, Len(trace'))
             last == new[Len(new)]
             status == logs'[Len(logs')].status
         IN /\ new # <<>> /\ Len(new) <= Len(steps)
            /\ \A k \in DOMAIN new :
                  /\ new[k].job = jobIdx /\ new[k].act = cursor
                  /\ new[k].store = steps[k].store
                  /\ new[k].op = steps[k].op
                  /\ new[k].path = steps[k].path
                  /\ k < Len(new) => new[k].ok
            /\ Len(logs') = Len(logs) + 1
            /\ logs'[Len(logs')].action = a
            /\ IF Len(new) = Len(steps) /\ last.ok
               THEN status = Applied
               ELSE status.kind = "Failed" /\ ~last.ok
            /\ a.kind = "Upload" => local' = local
            /\ a.kind = "Download" => remote' = remote
            /\ (Len(new) = 1) => (local' = local /\ remote' = remote)]_vars

\* with a limiter installed, one Upload stopped at its failed read and a
\* later one went through all four steps
C30_Witness ==
    /\ limited
    /\ \E j, k \in DOMAIN trace :
          /\ j < k
          /\ trace[j].op = "read_file" /\ trace[j].store = "local" /\ ~trace[j].ok
          /\ trace[k].op = "write_file" /\ trace[k].store = "remote" /\ trace[k].ok
          /\ k >= 4
          /\ trace[k - 1].op = "consume" /\ trace[k - 1].act = trace[k].act
          /\ trace[k - 2].op = "ensure_dir" /\ trace[k - 2].act = trace[k].act
          /\ trace[k - 3].op = "read_file" /\ trace[k - 3].act = trace[k].act
    /\ \A k \in DOMAIN trace : trace[k].op # "consume" => trace[k].store # "limiter"

\* one action of the kind `kind` has just been executed
StepOf(kind) ==
    /\ pc = "running"
    /\ jobIdx <= Len(jobs)
    /\ cursor <= Len(jobs[jobIdx].plan.actions)
    /\ jobs[jobIdx].plan.actions[cursor].kind = kind
    /\ cursor' = cursor + 1

\* C31: a DeleteLocal for a path already absent from the local store is
\* Applied and leaves the local store as it was; a DeleteRemote whose removal
\* fails is Failed, and on the SFTP store the removal of an absent file fails.
C31_DeleteOutcomes ==
    [][LET path == jobs[jobIdx].plan.actions[cursor].rel_path
           status == logs'[Len(logs')].status
           op == trace'[Len(trace')]
       IN /\ (StepOf("DeleteLocal") /\ local.files[path] = Absent) =>
                /\ status = Applied
                /\ local' = local /\ remote' = remote
          /\ StepOf("DeleteRemote") =>
                /\ Len(trace') = Len(trace) + 1
                /\ op.store = "remote" /\ op.op = "remove_file" /\ op.path = path
                /\ local' = local
                /\ ~op.ok => (status.kind = "Failed" /\ remote' = remote)
                /\ op.ok => status = Applied
                /\ (remoteKind = SftpRemoteStore /\ remote.files[path] = Absent) =>
                      status.kind = "Failed"]_vars

\* the second of two jobs deleted a local path the first had already deleted,
\* and was Applied
C31_Witness ==
    /\ pc = "running" /\ jobIdx = 2 /\ cursor > 1
    /\ jobs[2].plan.actions[1].kind = "DeleteLocal"
    /\ jobs[1].plan.actions[1] = jobs[2].plan.actions[1]
    /\ local.files[jobs[2].plan.actions[1].rel_path] = Absent
    /\ \E j, k \in DOMAIN trace :
          /\ trace[j].job = 1 /\ trace[j].op = "remove_file" /\ trace[j].ok
          /\ trace[k].job = 2 /\ trace[k].op = "remove_file" /\ trace[k].ok
          /\ trace[j].store = "local" /\ trace[k].store = "local"
    /\ logs[1].status = Applied

\* C32: the root the remote listing is made under is the remote root of the
\* job rule (and of its plan's rule), and every remote operation of the
\* execution is given that same root: the base path is applied once, by
\* resolve_remote_root at planning
C32_OneRemoteRoot ==
    LET root == resolve_remote_root(base_path, rule_remote)
    IN /\ \A i \in 1..Len(trace) : trace[i].store = "remote" => trace[i].root = root
       /\ pc \in {"planned", "applied", "executed"} =>
              /\ trace[1].op = "list"
              /\ planned[1].rule.remote = trace[1].root
       /\ pc \in {"applied", "executed"} =>
              /\ jobs[1].rule.remote = trace[1].root
              /\ jobs[1].plan.rule.remote = trace[1].root
       /\ pc = "executed" =>
              Len(trace) = 1 + Len(ExecutedRemoteOps(jobs[1].plan.actions, root))

C32_Witness ==
    /\ pc = "executed"
    /\ base_path = <<"a">>
    /\ rule_remote = <<"a">>
    /\ jobs[1].plan.actions = <<"Upload", "DeleteRemote">>
    /\ Len(trace) = 4
    /\ trace[4] = RootOp("remote", "remove_file", <<"a", "/", "a">>)
    /\ resolve_remote_root(base_path, trace[4].root) # trace[4].root

\* where submission s is: the places of the work queue holding it, the
\* workers running it, the workers that have run it to its end, and the
\* Finished events sent for it
QueuedAt(s) == {i \in 1..Len(queue) : queue[i] = s}
RunningOn(s) == {w \in Workers : workers[w].task = s}
RanOn(s) == {w \in Workers : s \in workers[w].ran}
FinishedSent(s) ==
    {i \in 1..Len(sent[s]) : sent[s][i] \in {Finished("Ok"), Finished("Err")}}

\* C33: every submitted task is in the queue, or with one worker, or has
\* been run to its end by one worker, and never two of these: it is taken
\* by one worker only and gets one Finished, sent by the worker that took
\* it; a worker keeps its task from recv() until its Finished send, so at
\* most WorkerCount tasks are in progress, and the worker count is 2..4
C33_OneWorkerPerTask ==
    /\ [](/\ \A s \in Submissions :
                /\ rx[s] # "none" =>
                       Cardinality(QueuedAt(s)) + Cardinality(RunningOn(s))
                           + Cardinality(RanOn(s)) = 1
                /\ rx[s] = "none" =>
                       QueuedAt(s) = {} /\ RunningOn(s) = {} /\ RanOn(s) = {}
                /\ Cardinality(FinishedSent(s)) = Cardinality(RanOn(s))
                /\ sent[s] # <<>> => QueuedAt(s) = {}
                /\ RunningOn(s) # {} => FinishedSent(s) = {}
          /\ Cardinality({w \in Workers : workers[w].task # 0}) <= WorkerCount
          /\ WorkerCount \in {worker_count(n) : n \in 0..MaxParallelism}
          /\ \A n \in 0..MaxParallelism : worker_count(n) \in 2..4)
    /\ [][\A w \in Workers :
              workers'[w].task # workers[w].task =>
                  \/ /\ workers[w].task = 0
                     /\ queue # <<>>
                     /\ workers'[w].task = Head(queue)
                     /\ queue' = Tail(queue)
                  \/ \E s \in Submissions :
                         /\ workers[w].task = s
                         /\ workers'[w].task = 0
                         /\ FinishedSent(s) = {}
                         /\ FinishedSent(s)' # {}]_vars

C33_Witness ==
    /\ workers[1].ran = {1}
    /\ workers[1].task = 0
    /\ workers[2].task = 2
    /\ workers[2].step > 1
    /\ Cardinality(FinishedSent(1)) = 1
    /\ queue = <<>>

\* the caller of submission s has received its Finished event
Delivered(s) == Terminated(s) /\ chan[s] = <<>>

\* C34: when workers are scheduled fairly and callers keep receiving, every
\* submitted task (the one submitted while all workers are busy too) is
\* taken by a worker and its Finished event reaches the caller; and a task
\* a worker has taken is run on to its Finished send: the events sent for it
\* only grow and the worker leaves it only with that send
C34_EverySubmissionFinishes ==
    /\ \A s \in LiveSubmissions :
           /\ (s \in Range(queue)) ~> (\E w \in Workers : workers[w].task = s)
           /\ (rx[s] = "open") ~> Delivered(s)
    /\ [][\A s \in LiveSubmissions :
              /\ Len(sent'[s]) >= Len(sent[s])
              /\ SubSeq(sent'[s], 1, Len(sent[s])) = sent[s]
              /\ \A w \in Workers :
                     (workers[w].task = s /\ workers'[w].task # s) =>
                         (~Terminated(s) /\ Terminated(s)')]_vars

C34_Witness ==
    /\ \A s \in LiveSubmissions : Delivered(s)
    /\ Len(sent[1]) > ResponseCapacity
    /\ \E w \in Workers : workers[w].ran = {2, 3}

\* C35: after every consume call the allowance is between 0 and the cap
\* (limit_per_sec), and after a call that found a deficit d (and slept for
\* it) the allowance is cap - min(d, cap)
C35_AllowanceWithinCap ==
    /\ limiter.allowance >= 0
    /\ limiter.allowance <= limiter.limit_per_sec
    /\ \A i \in 1..Len(consumes) :
           LET c == consumes[i]
               cap == c.before.limit_per_sec
               d == c.bytes - c.refilled
           IN /\ c.after.allowance >= 0
              /\ c.after.allowance <= cap
              /\ c.after.limit_per_sec = cap
              /\ d > 0 => c.after.allowance = cap - Min(d, cap)
              /\ c.sleep > 0 => d > 0

C35_Witness ==
    /\ Len(consumes) >= 2
    /\ \E i \in 1..Len(consumes) :
           /\ consumes[i].sleep > 0
           /\ consumes[i].bytes - consumes[i].refilled > consumes[i].before.limit_per_sec
           /\ consumes[i].after.allowance = 0
    /\ \E j \in 1..Len(consumes) :
           /\ consumes[j].sleep > 0
           /\ consumes[j].bytes - consumes[j].refilled = 1
           /\ consumes[j].after.allowance = consumes[j].before.limit_per_sec - 1

\* C36: for every Execute task whose last event is Finished(Ok), the event
\* sent just before it is a Progress with completed = total, also for an
\* empty job list and for jobs whose plans have no actions.
C36_LastProgressComplete ==
    \A s \in Submissions :
        (/\ tasks[s].kind = "Execute"
         /\ sent[s] # <<>>
         /\ sent[s][Len(sent[s])] = Finished("Ok")) =>
            /\ Len(sent[s]) >= 2
            /\ \E n \in 1..MaxSteps : sent[s][Len(sent[s]) - 1] = Progress(n, n)

\* C37: no plan names a relative path in two of its actions, whatever the
\* direction and the two snapshots
C37_OneActionPerPath ==
    \A p \in {plan, replay, replan} :
        p # NoPlan =>
            \A i, j \in DOMAIN p.actions :
                p.actions[i].rel_path = p.actions[j].rel_path => i = j

\* a plan with an action for every path: the local loop makes one for a path
\* both sides hold, the remote loop one for a path only the remote holds
C37_Witness ==
    /\ plan # NoPlan
    /\ Len(plan.actions) = Cardinality(Paths)
    /\ \E i \in DOMAIN plan.actions :
           /\ local.files[plan.actions[i].rel_path] # Absent
           /\ remote.files[plan.actions[i].rel_path] # Absent
    /\ \E i \in DOMAIN plan.actions : local.files[plan.actions[i].rel_path] = Absent

\* C38: no attempt authenticates unless verify_host has returned Match or New
\* to it, and every attempt that returns a session has had that verdict and
\* has authenticated, also when no host key is presented.
C38_AuthenticatesOnlyVerified ==
    \A c \in Calls :
        LET verified == \E i \in DOMAIN verdicts :
                            /\ verdicts[i].call = c
                            /\ verdicts[i].verdict \in {HostMatch, HostNew}
        IN /\ (calls[c].pc = "auth" \/ calls[c].auth) => verified
           /\ calls[c].result = "Ok" => (verified /\ calls[c].auth)

\* the jobs of js that belong to target t, in order
JobsOf(js, t) == SelectSeq(js, LAMBDA job : job.target_id = t)

\* C39: after any apply_planned_jobs and drop_jobs_for_target calls the
\* sessions are the jobs mapped by to_session in the same order and the
\* session ids of the jobs are pairwise distinct; apply_planned_jobs(t,
\* result) leaves for t exactly the jobs of result, in order, and
\* drop_jobs_for_target(t) none, the jobs of every other target staying
C39_SessionsMirrorJobs ==
    /\ [](/\ Len(sessions) = Len(jobs)
          /\ \A i \in DOMAIN jobs :
                /\ sessions[i].id = jobs[i].id
                /\ sessions[i].target_id = jobs[i].target_id
                /\ sessions[i].pending_actions = Len(jobs[i].plan.actions)
                /\ sessions[i].status = SyncStatusIdle <=> jobs[i].plan.actions = <<>>
          /\ \A i, j \in DOMAIN jobs : jobs[i].id = jobs[j].id => i = j)
    /\ [][\A t \in TargetIds :
              /\ \A res \in PlanJobsResults(t) :
                     ApplyPlannedJobs(t, res) =>
                         /\ Len(JobsOf(jobs', t)) = Len(res.jobs)
                         /\ \A i \in DOMAIN res.jobs :
                                /\ JobsOf(jobs', t)[i].plan.actions = res.jobs[i].actions
                                /\ JobsOf(jobs', t)[i].id \notin {jobs[k].id : k \in DOMAIN jobs}
                         /\ \A u \in TargetIds \ {t} : JobsOf(jobs', u) = JobsOf(jobs, u)
              /\ DropJobsForTarget(t) =>
                     /\ JobsOf(jobs', t) = <<>>
                     /\ \A u \in TargetIds \ {t} : JobsOf(jobs', u) = JobsOf(jobs, u)]_vars

\* target 1 has been planned twice and only its second job is left, after
\* the job of target 2
C39_Witness ==
    /\ Len(jobs) = 2
    /\ jobs[1].target_id = 2
    /\ jobs[2].target_id = 1
    /\ jobs[1].id = 2
    /\ jobs[2].id = 3
    /\ sessions[1].status = SyncStatusIdle
    /\ sessions[2].status = AwaitingConfirmation

\* the plan of job j has one action per entry of its remote index, in the
\* order of the index: DeleteRemote under Push, Download otherwise
OneActionPerRemoteEntry(j) ==
    /\ Len(j.actions) = Len(j.remote_index)
    /\ \A k \in DOMAIN j.actions :
           j.actions[k] = IF j.rule.direction = Push
                          THEN DeleteRemote(j.remote_index[k].path)
                          ELSE Download(j.remote_index[k].path, j.remote_index[k].size)

\* C40: when the local root does not exist its listing returns Ok with no
\* entries, and a rule whose remote listing succeeds is planned without a
\* warning: its job has an empty local index, every remote file in its
\* remote index, and exactly one DeleteRemote (Push) or one Download (Pull,
\* Bidirectional) per remote entry
C40_MissingLocalRootPlans ==
    (RootDir \notin local.dirs /\ pc \in {"planning", "done"}) =>
        \A i \in 1..(ruleIdx - 1) :
            /\ \E k \in DOMAIN trace :
                   /\ trace[k].job = i /\ trace[k].store = "local"
                   /\ trace[k].op = "list" /\ trace[k].ok
            /\ (\E k \in DOMAIN trace :
                    trace[k].job = i /\ trace[k].store = "remote" /\ trace[k].ok) =>
                   /\ \A w \in DOMAIN warnings : warnings[w].index # i
                   /\ \E j \in DOMAIN planned :
                          /\ planned[j].index = i
                          /\ planned[j].local_index = <<>>
                          /\ {planned[j].remote_index[k].path :
                                 k \in DOMAIN planned[j].remote_index}
                                = {p \in Paths : remote.files[p] # Absent}
                          /\ Len(planned[j].remote_index)
                                = Cardinality({p \in Paths : remote.files[p] # Absent})
                          /\ OneActionPerRemoteEntry(planned[j])

\* three rules, one of each direction, planned over a missing local root and
\* a remote tree of two files: no warning, two actions each
C40_Witness ==
    /\ RootDir \notin local.dirs
    /\ pc = "done" /\ result = "Ok"
    /\ warnings = <<>>
    /\ Len(planned) = 3
    /\ {planned[j].rule.direction : j \in DOMAIN planned} = SyncDirection
    /\ \A j \in DOMAIN planned :
           /\ Len(planned[j].actions) = 2
           /\ planned[j].rule.direction = Push => planned[j].actions[1].kind = "DeleteRemote"
           /\ planned[j].rule.direction # Push => planned[j].actions[1].kind = "Download"

====
